---- MODULE Spec2Model ----
(***************************************************************************)
(* A model of the web-scraper core: the visit/session state store          *)
(* (scraper/state_manager.py), the item pipeline (scraper/pipelines.py)    *)
(* and the crawl controllers (scraper/async_scraper.py,                    *)
(* scraper/universal_scraper.py).                                          *)
(*                                                                         *)
(* A string is a sequence of tokens, so "" is <<>>; Python's None and SQL   *)
(* NULL are <<>> too, which is faithful wherever the code tests            *)
(* truthiness (`a or b`, `if not a`). A session id "session_<timestamp>"   *)
(* is <<"session", t>> and a stored timestamp is <<"ts", t>>, t being the  *)
(* wall clock in whole seconds (both strftime's %S and SQLite's            *)
(* CURRENT_TIMESTAMP have one-second resolution). A Python dict is a       *)
(* function whose domain is its key set.                                   *)
(***************************************************************************)
EXTENDS Integers, Sequences, FiniteSets, TLC

VARIABLES
    now,            \* the wall clock, in seconds
    visited_urls,   \* table visited_urls: a set of rows
    sessions,       \* table sessions: a set of rows
    scraped_items,  \* table scraped_items: rows in AUTOINCREMENT (insertion) order
    session_id,     \* StateManager.session_id, the ambient "current session"
    lastCall,       \* the call, or pair of calls in progress, of an operation on its
                    \* own: arguments, positions and outcome
    seen_ids,       \* DeduplicationPipeline.seen_ids
    emitted,        \* the items the deduplication stage has returned, in order
    lastFed,        \* the last item fed to the deduplication stage, and its outcome
    results,        \* BaseScraper.results: the items the pipeline accepted
    mode,           \* the crawl under way: "none", "async", "multi" or "universal"
    cfg,            \* its configuration and arguments
    pc,             \* where the crawl stands
    current_url,    \* the page it is on
    page_num,       \* its page counter
    all_results,    \* its accumulated results
    task_results,   \* scrape_multiple: the state or the result of each task
    attempt,        \* the attempt of the retry decorator (UniversalScraper.scrape)
    outcome,        \* what the crawl handed to its caller: a value or an exception
    started,        \* the ids of the sessions this crawl started
    pages,          \* the pages this run of the page loop has processed
    fetchFailed     \* the page whose fetch failed, with the results held at that time

storeVars == <<now, visited_urls, sessions, scraped_items, session_id, lastCall>>

pipeVars == <<seen_ids, emitted, lastFed>>

crawlVars == <<results, mode, cfg, pc, current_url, page_num, all_results, task_results,
               attempt, outcome, started, pages, fetchFailed>>

vars == <<storeVars, pipeVars, crawlVars>>

\* ------------------------------------------------------------------ bounds

\* The clock runs from 0 to MaxClock.
MaxClock == 2

\* A crawl is configured with max_pages in 1..MaxPages.
MaxPages == 2

\* A URL given to url_pattern pagination has 1..MaxUrlLen tokens.
MaxUrlLen == 4

\* A page searched for its next link has 0..MaxElems anchors and buttons.
MaxElems == 2

\* A page given to extract has 0..MaxDoc container elements.
MaxDoc == 3

\* The saved-item log is followed up to MaxSaved records.
MaxSaved == 3

\* A configuration file holds 1..MaxEntries entries besides its "sites" list.
MaxEntries == 2

\* ------------------------------------------------------------------ values

NULL == <<>>

NoError == "none"

URLs == {<<"u1">>, <<"u2">>}

StartUrls == {<<"u1">>}

Statuses == {<<"success">>, <<"failed">>}

TS(t) == <<"ts", t>>

\* F applied to the value of v, v being evaluated once.
With(v, F(_)) == CHOOSE y \in {F(x) : x \in {v}} : TRUE

\* Python's `a or b` on values whose only falsy member is None.
Or(a, b) == IF a # NULL THEN a ELSE b

\* dict.get(key): None when the key is absent.
Get(item, k) == IF k \in DOMAIN item THEN item[k] ELSE NULL

\* item[k] = v
Put(item, k, v) == [x \in DOMAIN item \cup {k} |-> IF x = k THEN v ELSE item[x]]

Truthy(v) == v # <<>>

\* hashlib.md5(url).hexdigest(): distinct URLs of the model get distinct digests.
hash_url(url) == <<"md5", url>>

\* f"session_{datetime.now().strftime('%Y%m%d_%H%M%S')}"
SessionIdAt(t) == <<"session", t>>

SessionIds == {SessionIdAt(t) : t \in 0..MaxClock}

\* ------------------------------------------------------------- State Store

\* INSERT INTO visited_urls: url_hash is the PRIMARY KEY of the table.
VisitedPkConflict(tbl, row) == \E r \in tbl : r.url_hash = row.url_hash

\* A check that counts only the visits that succeeded.
VisitedWithSuccess(tbl, url, sid) ==
    \E r \in tbl : r.url_hash = hash_url(url) /\ r.status = <<"success">>

\* StateManager.is_visited(url, session_id=None)
is_visited(tbl, url, sid) ==
    IF sid # NULL
    THEN Cardinality({r \in tbl : r.url_hash = hash_url(url) /\ r.session_id = sid}) > 0
    ELSE Cardinality({r \in tbl : r.url_hash = hash_url(url)}) > 0

\* StateManager.mark_visited(url, session_id=None, status='success'):
\* the table it leaves, given the ambient session `cur` and the clock `t`.
mark_visited(tbl, cur, url, sid, status, t) ==
    LET row == [url_hash |-> hash_url(url), url |-> url,
                session_id |-> Or(sid, cur), visited_at |-> TS(t), status |-> status]
    IN  IF ~VisitedPkConflict(tbl, row)
        THEN tbl \cup {row}
        ELSE \* except sqlite3.IntegrityError: UPDATE ... WHERE url_hash = ?
             {IF r.url_hash = row.url_hash
              THEN [r EXCEPT !.status = status, !.visited_at = TS(t)]
              ELSE r : r \in tbl}

\* INSERT INTO sessions: session_id is the PRIMARY KEY of the table.
SessionPkConflict(tbl, sid) == \E r \in tbl : r.session_id = sid

\* StateManager.start_session(start_url, metadata): the id it generates, the
\* table it leaves and the error it raises (NULL for none).
start_session(tbl, start_url, metadata, t) ==
    LET sid == SessionIdAt(t)
        row == [session_id |-> sid, start_url |-> start_url, started_at |-> TS(t),
                completed_at |-> NULL, status |-> <<"active">>, metadata |-> metadata]
    IN  IF SessionPkConflict(tbl, sid)
        THEN [sid |-> sid, sessions |-> tbl, error |-> "IntegrityError"]
        ELSE [sid |-> sid, sessions |-> tbl \cup {row}, error |-> NoError]

\* StateManager.end_session(session_id=None)
end_session(tbl, cur, sid, t) ==
    LET s == Or(sid, cur)
    IN  IF s = NULL
        THEN tbl
        ELSE {IF r.session_id = s
              THEN [r EXCEPT !.completed_at = TS(t), !.status = <<"completed">>]
              ELSE r : r \in tbl}

\* json.dumps / json.loads of a saved payload.
json_dumps(data) == <<"json", data>>
json_loads(text) == text[2]

\* StateManager.save_item(url, data, session_id=None)
save_item(tbl, cur, url, data, sid, t) ==
    Append(tbl, [id |-> Len(tbl) + 1, session_id |-> Or(sid, cur), url |-> url,
                 data |-> json_dumps(data), scraped_at |-> TS(t)])

\* A query that returns the items of every session.
AnySession(row, session) == TRUE

\* WHERE session_id = ?
InSession(row, session) == row.session_id = session

\* ORDER BY scraped_at: the rows by their second; rows of the same second come
\* out in the order of their ids, as SQLite returns them.
RECURSIVE OrderByScrapedAt(_, _)
OrderByScrapedAt(rows, t) ==
    IF rows = <<>> THEN <<>>
    ELSE IF \E i \in 1..Len(rows) : rows[i].scraped_at = TS(t)
    THEN SelectSeq(rows, LAMBDA r : r.scraped_at = TS(t))
         \o OrderByScrapedAt(SelectSeq(rows, LAMBDA r : r.scraped_at # TS(t)), t + 1)
    ELSE OrderByScrapedAt(rows, t + 1)

\* StateManager.get_session_items(session_id=None)
get_session_items(tbl, cur, sid) ==
    LET session == Or(sid, cur)
    IN  IF ~Truthy(session) THEN <<>>
        ELSE LET rows == OrderByScrapedAt(SelectSeq(tbl, LAMBDA r : InSession(r, session)), 0)
             IN  [i \in 1..Len(rows) |->
                     Put(json_loads(rows[i].data), "_source_url", rows[i].url)]

\* A clear_session that forgets the saved items.
ClearVisitsAndSession(visited, items, sess, sid) ==
    [visited |-> {r \in visited : r.session_id # sid},
     items |-> items,
     sessions |-> {r \in sess : r.session_id # sid}]

\* StateManager.clear_session(session_id): the three DELETE ... WHERE
\* session_id = ? statements.
clear_session(visited, items, sess, sid) ==
    [visited |-> {r \in visited : r.session_id # sid},
     items |-> SelectSeq(items, LAMBDA r : r.session_id # sid),
     sessions |-> {r \in sess : r.session_id # sid}]

\* StateManager.clear_all()
clear_all(visited, items, sess) == [visited |-> {}, items |-> <<>>, sessions |-> {}]

\* ------------------------------------------------------------ Item Pipeline

Whitespace == " "

RECURSIVE LStrip(_)
LStrip(s) == IF s # <<>> /\ Head(s) = Whitespace THEN LStrip(Tail(s)) ELSE s

RECURSIVE RStrip(_)
RStrip(s) ==
    IF s # <<>> /\ s[Len(s)] = Whitespace THEN RStrip(SubSeq(s, 1, Len(s) - 1)) ELSE s

\* str.strip()
Strip(s) == RStrip(LStrip(s))

\* A stage returns the item, or None to drop it.
Kept(item) == [dropped |-> FALSE, item |-> item]
Dropped(item) == [dropped |-> TRUE, item |-> item]

\* ItemPipeline.process_item: strip every string value.
ItemPipeline_process_item(item) == Kept([k \in DOMAIN item |-> Strip(item[k])])

\* ValidationPipeline.process_item: drop an item without a title.
ValidationPipeline_process_item(item) ==
    IF ~Truthy(Get(item, "title")) THEN Dropped(item) ELSE Kept(item)

\* SchemaValidationPipeline.process_item: `schema` is the configured JSON schema,
\* here the set of required keys, or NULL for none.
SchemaValidationPipeline_process_item(item, schema) ==
    IF ~Truthy(schema) THEN Kept(item)
    ELSE IF \A i \in 1..Len(schema) : schema[i] \in DOMAIN item THEN Kept(item)
    ELSE Dropped(item)

\* item.get('link') or item.get('url') or hash(frozenset(item.items()))
Fingerprint(item) ==
    IF Truthy(Get(item, "link")) THEN <<"str", Get(item, "link")>>
    ELSE IF Truthy(Get(item, "url")) THEN <<"str", Get(item, "url")>>
    ELSE <<"hash", item>>

\* A deduplication stage that forgets the fingerprints it let through.
DedupForgets(item, seen) ==
    [dropped |-> Fingerprint(item) \in seen, item |-> item, seen |-> seen]

\* A deduplication stage whose membership test reads the set as it was before
\* the batch, and whose insert comes after the test of every task.
DedupChecksEarly(item, seen) ==
    [dropped |-> Fingerprint(item) \in {}, item |-> item,
     seen |-> seen \cup {Fingerprint(item)}]

\* DeduplicationPipeline.process_item: the outcome and the seen_ids it leaves.
DeduplicationPipeline_process_item(item, seen) ==
    IF Fingerprint(item) \in seen
    THEN [dropped |-> TRUE, item |-> item, seen |-> seen]
    ELSE [dropped |-> FALSE, item |-> item, seen |-> seen \cup {Fingerprint(item)}]

\* A pipeline list with the deduplication stage ahead of validation.
DedupBeforeValidation ==
    <<"ItemPipeline", "DeduplicationPipeline", "ValidationPipeline",
      "SchemaValidationPipeline">>

\* PipelineManager.pipelines, the default list.
Pipelines ==
    <<"ItemPipeline", "ValidationPipeline", "DeduplicationPipeline",
      "SchemaValidationPipeline">>

\* pipeline.process_item(item, scraper) of one stage: the outcome, and the
\* seen_ids left (only the deduplication stage has any).
RunStage(stage, item, seen, schema) ==
    CASE stage = "ItemPipeline" ->
             With(ItemPipeline_process_item(item), LAMBDA r :
                 [dropped |-> r.dropped, item |-> r.item, seen |-> seen])
      [] stage = "ValidationPipeline" ->
             With(ValidationPipeline_process_item(item), LAMBDA r :
                 [dropped |-> r.dropped, item |-> r.item, seen |-> seen])
      [] stage = "DeduplicationPipeline" -> DeduplicationPipeline_process_item(item, seen)
      [] OTHER ->
             With(SchemaValidationPipeline_process_item(item, schema), LAMBDA r :
                 [dropped |-> r.dropped, item |-> r.item, seen |-> seen])

\* for pipeline in self.pipelines: item = pipeline.process_item(item, scraper);
\* if item is None: break. `ran` lists the stages run so far.
RECURSIVE RunPipelines(_, _, _, _, _)
RunPipelines(stages, item, seen, schema, ran) ==
    IF stages = <<>> THEN [dropped |-> FALSE, item |-> item, seen |-> seen, ran |-> ran]
    ELSE With(RunStage(Head(stages), item, seen, schema), LAMBDA r :
             IF r.dropped
             THEN [dropped |-> TRUE, item |-> r.item, seen |-> r.seen,
                   ran |-> Append(ran, Head(stages))]
             ELSE RunPipelines(Tail(stages), r.item, r.seen, schema,
                               Append(ran, Head(stages))))

\* PipelineManager.process_item: Normalize, Validate, Deduplicate,
\* Schema-validate, stopping at the first stage that drops the item.
PipelineManager_process_item(item, seen, schema) ==
    RunPipelines(Pipelines, item, seen, schema, <<>>)

\* Items fed to the deduplication stage on its own.
DedupItems ==
    { [title |-> <<"T1">>, link |-> <<"L1">>],
      [title |-> <<"T2">>, link |-> <<"L1">>],
      [title |-> <<"T1">>, link |-> <<>>, url |-> <<"U1">>],
      [title |-> <<"T2">>, url |-> <<"U1">>],
      [url |-> <<"L1">>],
      [title |-> <<"T1">>],
      [title |-> <<"T1">>, link |-> <<>>] }

NoFeed == [op |-> "none"]

\* One item goes through the deduplication stage.
DedupFeed ==
    \E item \in DedupItems :
        \E r \in {DeduplicationPipeline_process_item(item, seen_ids)} :
            /\ seen_ids' = r.seen
            /\ emitted' = IF r.dropped THEN emitted ELSE Append(emitted, r.item)
            /\ lastFed' = [op |-> "dedup", item |-> item, dropped |-> r.dropped]
            /\ UNCHANGED <<storeVars, crawlVars>>

\* Items fed to the whole pipeline, and the schemas configured: none, or one
\* that requires a price.
PipeItems ==
    { [title |-> <<"T1">>, link |-> <<"L1">>],
      [title |-> <<"T2">>, link |-> <<" ", "L1">>],
      [title |-> <<" ">>, link |-> <<"L2">>],
      [link |-> <<"L1">>],
      [title |-> <<"T1">>, link |-> <<"L3">>, price |-> <<"P">>],
      [title |-> <<"T3">>, link |-> <<"L2">>] }
Schemas == {NULL, <<"price">>}

\* BaseScraper.add_result(item): the item goes through the pipeline and is
\* appended to the results unless a stage dropped it.
PipeFeed ==
    \E item \in PipeItems, schema \in Schemas :
        \E r \in {PipelineManager_process_item(item, seen_ids, schema)} :
            /\ seen_ids' = r.seen
            /\ emitted' = IF r.dropped THEN emitted ELSE Append(emitted, r.item)
            /\ lastFed' = [op |-> "pipeline", item |-> item, schema |-> schema,
                           dropped |-> r.dropped, out |-> r.item, ran |-> r.ran,
                           seen_before |-> seen_ids]
            /\ UNCHANGED <<storeVars, crawlVars>>

PipeInit ==
    /\ seen_ids = {}
    /\ emitted = <<>>
    /\ lastFed = NoFeed

\* ------------------------------------------------- State Store as a service

NoCall == [op |-> "none"]

\* One second passes.
Tick ==
    /\ now < MaxClock
    /\ now' = now + 1
    /\ UNCHANGED <<visited_urls, sessions, scraped_items, session_id, lastCall, pipeVars, crawlVars>>

\* A caller starts a session.
StartSession ==
    \E u \in StartUrls :
        \E r \in {start_session(sessions, u, NULL, now)} :
            /\ session_id' = r.sid      \* assigned before the INSERT runs
            /\ sessions' = r.sessions
            /\ lastCall' = [op |-> "start_session", sid |-> r.sid, error |-> r.error,
                            fresh |-> ~SessionPkConflict(sessions, r.sid)]
            /\ UNCHANGED <<now, visited_urls, scraped_items, pipeVars, crawlVars>>

\* A caller ends a session: the ambient one (NULL) or a named one.
EndSession ==
    \E sid \in {NULL} \cup SessionIds :
        /\ sessions' = end_session(sessions, session_id, sid, now)
        /\ lastCall' = [op |-> "end_session", sid |-> Or(sid, session_id), error |-> NoError,
                        before |-> {r \in sessions : r.session_id = Or(sid, session_id)}]
        /\ UNCHANGED <<now, visited_urls, scraped_items, session_id, pipeVars, crawlVars>>

\* What scrape saves for a URL: an item, or the summary of a list.
Payloads ==
    { [url |-> <<"u1">>, data |-> [title |-> <<"T">>, status |-> <<"success">>]],
      [url |-> <<"u2">>, data |-> [item_count |-> <<"2">>, type |-> <<"list">>]] }

\* A caller saves an item, in the ambient session (NULL) or a named one.
SaveItem ==
    \E p \in Payloads, sid \in {NULL, SessionIdAt(0)} :
        /\ Len(scraped_items) < MaxSaved
        /\ scraped_items' = save_item(scraped_items, session_id, p.url, p.data, sid, now)
        /\ lastCall' = [op |-> "save_item", url |-> p.url, data |-> p.data,
                        sid |-> Or(sid, session_id), before |-> scraped_items]
        /\ UNCHANGED <<now, visited_urls, sessions, session_id, pipeVars, crawlVars>>

\* A caller reads the items of a session, the ambient one (NULL) or a named one.
GetSessionItems ==
    \E sid \in {NULL, SessionIdAt(0)} :
        /\ lastCall' = [op |-> "get_session_items", sid |-> Or(sid, session_id),
                        items |-> get_session_items(scraped_items, session_id, sid)]
        /\ UNCHANGED <<now, visited_urls, sessions, scraped_items, session_id, pipeVars,
                       crawlVars>>

\* The sessions of the stores that are cleared: one started at second 0 and one
\* at second 1.
ClearedSessions == {SessionIdAt(0), SessionIdAt(1)}

\* The visit table after the URLs that `by` gives a session have been marked in
\* it.
VisitsBy(by) ==
    UNION {IF by[u] = NULL THEN {}
           ELSE mark_visited({}, NULL, u, by[u], <<"success">>, 1) : u \in URLs}

\* The saved-item log after the saves `saves` (a payload and a session each).
RECURSIVE ItemsBy(_)
ItemsBy(saves) ==
    IF saves = <<>> THEN <<>>
    ELSE With(saves[Len(saves)], LAMBDA last :
            save_item(ItemsBy(SubSeq(saves, 1, Len(saves) - 1)), NULL, last.p.url,
                      last.p.data, last.sid, 1))

\* The session table after the sessions of `ids` have been started.
SessionsBy(ids) ==
    LET s0 == IF SessionIdAt(0) \in ids
              THEN start_session({}, <<"u1">>, <<"pagination">>, 0).sessions ELSE {}
    IN  IF SessionIdAt(1) \in ids
        THEN start_session(s0, <<"u1">>, <<"pagination">>, 1).sessions ELSE s0

\* A caller clears a session.
ClearSession ==
    /\ lastCall = NoCall
    /\ \E sid \in SessionIds :
        \E r \in {clear_session(visited_urls, scraped_items, sessions, sid)} :
            /\ visited_urls' = r.visited
            /\ scraped_items' = r.items
            /\ sessions' = r.sessions
            /\ lastCall' = [op |-> "clear_session", sid |-> sid,
                            before |-> [visited |-> visited_urls, items |-> scraped_items,
                                        sessions |-> sessions]]
            /\ UNCHANGED <<now, session_id, pipeVars, crawlVars>>

\* A caller clears the whole store.
ClearAll ==
    /\ lastCall = NoCall
    /\ \E r \in {clear_all(visited_urls, scraped_items, sessions)} :
        /\ visited_urls' = r.visited
        /\ scraped_items' = r.items
        /\ sessions' = r.sessions
        /\ lastCall' = [op |-> "clear_all",
                        before |-> [visited |-> visited_urls, items |-> scraped_items,
                                    sessions |-> sessions]]
        /\ UNCHANGED <<now, session_id, pipeVars, crawlVars>>

\* A caller marks a URL visited, in the ambient session (NULL) or a named one.
\* lastCall.prev is <<s>> when the call before was mark_visited of the same URL
\* in session s, and NULL otherwise.
MarkVisited ==
    \E u \in URLs, sid \in {NULL} \cup SessionIds, st \in Statuses :
        /\ visited_urls' = mark_visited(visited_urls, session_id, u, sid, st, now)
        /\ lastCall' = [op |-> "mark_visited", url |-> u, sid |-> Or(sid, session_id),
                        status |-> st, error |-> NoError,
                        prev |-> IF lastCall.op = "mark_visited" /\ lastCall.url = u
                                 THEN <<lastCall.sid>> ELSE NULL]
        /\ UNCHANGED <<now, sessions, scraped_items, session_id, pipeVars, crawlVars>>

\* ------------------------------------- two callers inside mark_visited at once

\* Each caller has its own connection. Its position: before the INSERT
\* ("start"), after an INSERT that went through ("inserted"), in the except
\* branch after an INSERT that raised IntegrityError ("except"), after the UPDATE
\* ("updated"), or returned ("done"). lastCall holds the two calls.
Callers == {1, 2}

\* A connection that has executed a statement and not yet committed has a
\* transaction open, and with it the write lock of the database file.
InTransaction(c) == lastCall.pos[c] \in {"inserted", "except", "updated"}

\* A connection that holds every lock it asks for.
NeverLocked(c) == TRUE

\* SQLite has one writer at a time: the INSERT of a connection waits while
\* another connection's transaction is open.
WriteLockFree(c) == \A d \in Callers \ {c} : ~InTransaction(d)

\* The row a caller's INSERT carries.
VisitRow(c) ==
    [url_hash |-> hash_url(lastCall.url), url |-> lastCall.url,
     session_id |-> Or(lastCall.sid, session_id), visited_at |-> TS(now),
     status |-> lastCall.status[c]]

\* cursor.execute(INSERT ...): the row is pending until the commit, or the
\* primary key makes the statement raise IntegrityError.
ExecuteInsert ==
    \E c \in Callers :
        /\ lastCall.op = "mark_visited_pair"
        /\ lastCall.pos[c] = "start"
        /\ WriteLockFree(c)
        /\ lastCall' = [lastCall EXCEPT
                           !.pos[c] = IF VisitedPkConflict(visited_urls, VisitRow(c))
                                      THEN "except" ELSE "inserted"]
        /\ UNCHANGED <<now, visited_urls, sessions, scraped_items, session_id,
                       pipeVars, crawlVars>>

\* except sqlite3.IntegrityError: cursor.execute(UPDATE ...)
ExecuteUpdate ==
    \E c \in Callers :
        /\ lastCall.op = "mark_visited_pair"
        /\ lastCall.pos[c] = "except"
        /\ lastCall' = [lastCall EXCEPT !.pos[c] = "updated"]
        /\ UNCHANGED <<now, visited_urls, sessions, scraped_items, session_id,
                       pipeVars, crawlVars>>

\* conn.commit() of either branch, and the finally block: the pending statement
\* takes effect. A pending INSERT whose key is taken by now cannot be committed.
Commit ==
    \E c \in Callers :
        /\ lastCall.op = "mark_visited_pair"
        /\ lastCall.pos[c] \in {"inserted", "updated"}
        /\ IF lastCall.pos[c] = "updated"
           THEN /\ visited_urls' =
                       {IF r.url_hash = hash_url(lastCall.url)
                        THEN [r EXCEPT !.status = lastCall.status[c], !.visited_at = TS(now)]
                        ELSE r : r \in visited_urls}
                /\ lastCall' = [lastCall EXCEPT !.pos[c] = "done", !.path[c] = "update"]
           ELSE IF VisitedPkConflict(visited_urls, VisitRow(c))
           THEN /\ lastCall' = [lastCall EXCEPT !.pos[c] = "done", !.path[c] = "insert",
                                                !.error[c] = <<"IntegrityError">>]
                /\ UNCHANGED visited_urls
           ELSE /\ visited_urls' = visited_urls \cup {VisitRow(c)}
                /\ lastCall' = [lastCall EXCEPT !.pos[c] = "done", !.path[c] = "insert"]
        /\ UNCHANGED <<now, sessions, scraped_items, session_id, pipeVars, crawlVars>>

\* The visit table the two calls are made on: empty, or holding one visit.
PairPriors ==
    {{}} \cup {mark_visited({}, NULL, u, sid, st, 0) :
                  u \in URLs, sid \in SessionIds, st \in Statuses}

\* ------------------------------------- two crawls on one scraper at once

\* Two crawls run as tasks of one event loop on one AsyncScraper, and so on one
\* StateManager: crawl 1 of <<"u1">> and crawl 2 of <<"u2">>. Each stands where
\* it has not been called ("idle"), has started its session and awaits its fetch
\* ("started"), has recorded its page and awaits the next ("scraped"), has run
\* its finally block ("ended"), or start_session raised ("raised"). lastCall
\* holds the two crawls: for each its position, the session it started (own),
\* the session its records carry (wrote) and the session it ended.
Crawls == {1, 2}
CrawlUrl(c) == IF c = 1 THEN <<"u1">> ELSE <<"u2">>

\* if self.state_manager: self.state_manager.start_session(start_url, ...)
CrawlStart ==
    \E c \in Crawls :
        /\ lastCall.pos[c] = "idle"
        /\ \E r \in {start_session(sessions, CrawlUrl(c), <<"pagination">>, now)} :
            /\ session_id' = r.sid
            /\ sessions' = r.sessions
            /\ lastCall' = [lastCall EXCEPT
                               !.pos[c] = IF r.error = NoError THEN "started" ELSE "raised",
                               !.own[c] = IF r.error = NoError THEN r.sid ELSE NULL]
        /\ UNCHANGED <<now, visited_urls, scraped_items, pipeVars, crawlVars>>

\* The fetch of the crawl's page returns and scrape runs to its end:
\* mark_visited(url, status='success') and save_item(url, data) in the ambient
\* session.
CrawlScrape ==
    \E c \in Crawls :
        /\ lastCall.pos[c] = "started"
        /\ visited_urls' = mark_visited(visited_urls, session_id, CrawlUrl(c), NULL,
                                        <<"success">>, now)
        /\ scraped_items' = save_item(scraped_items, session_id, CrawlUrl(c),
                                      [url |-> CrawlUrl(c), status |-> <<"success">>],
                                      NULL, now)
        /\ lastCall' = [lastCall EXCEPT !.pos[c] = "scraped", !.wrote[c] = session_id]
        /\ UNCHANGED <<now, sessions, session_id, pipeVars, crawlVars>>

\* finally: if self.state_manager: self.state_manager.end_session()
CrawlEnd ==
    \E c \in Crawls :
        /\ lastCall.pos[c] = "scraped"
        /\ sessions' = end_session(sessions, session_id, NULL, now)
        /\ lastCall' = [lastCall EXCEPT !.pos[c] = "ended", !.ended[c] = session_id]
        /\ UNCHANGED <<now, visited_urls, scraped_items, session_id, pipeVars, crawlVars>>

\* Time passes between the steps of the two crawls.
CrawlsTick ==
    /\ lastCall.op = "two_crawls"
    /\ Tick

\* ------------------------------------------------------- the crawl: values

\* str(n) and int(s) on the page numbers of the model.
Digits == <<"0", "1", "2", "3", "4", "5", "6", "7", "8", "9">>
DigitTokens == {Digits[i] : i \in 1..10}
DigitVal(d) == CHOOSE n \in 0..9 : Digits[n + 1] = d

\* str(n) of a natural number: its decimal digits.
RECURSIVE Str(_)
Str(n) == IF n < 10 THEN <<Digits[n + 1]>>
          ELSE Str(n \div 10) \o <<Digits[(n % 10) + 1]>>

\* int(s) of a string of decimal digits.
RECURSIVE ParseInt(_)
ParseInt(ds) ==
    IF ds = <<>> THEN 0
    ELSE ParseInt(SubSeq(ds, 1, Len(ds) - 1)) * 10 + DigitVal(ds[Len(ds)])

\* A listing URL "https://x/list?page=<n>", and a URL with no page number in it.
PageUrl(n) == <<"list?", "page=">> \o Str(n)
PlainUrl == <<"start">>

\* What extraction finds on a page.
ItemTitled == [title |-> <<"T">>, link |-> <<"L">>]
ItemUntitled == [content |-> <<" ", "c">>]

\* What fetching a page and extracting from it comes to: the HTTP request fails,
\* Extractor.extract raises, or it returns one item (a dict) or a list of items.
PageOutcomes ==
    { [kind |-> "fetch_error"],
      [kind |-> "extract_error"],
      [kind |-> "dict", value |-> ItemTitled],
      [kind |-> "dict", value |-> ItemUntitled],
      [kind |-> "list", value |-> <<ItemTitled, ItemUntitled>>] }

\* A listing whose two entries have a title each and no link.
LinklessList == [kind |-> "list", value |-> <<[title |-> <<"A">>], [title |-> <<"B">>]>>]

\* ----------------------------------------------------- AsyncScraper.scrape

\* BaseScraper.add_result over the items of a page, in order: each item goes
\* through the pipeline (which strips the item's values in place) and is appended
\* to results unless a stage dropped it.
RECURSIVE add_results(_, _, _, _)
add_results(items, seen, res, schema) ==
    IF items = <<>>
    THEN [items |-> <<>>, seen |-> seen, results |-> res]
    ELSE With(PipelineManager_process_item(Head(items), seen, schema), LAMBDA p :
         With(add_results(Tail(items), p.seen,
                          IF p.dropped THEN res ELSE Append(res, p.item), schema),
              LAMBDA rest :
                 [items |-> <<p.item>> \o rest.items, seen |-> rest.seen,
                  results |-> rest.results]))

Result(type, value) == [type |-> type, value |-> value]

\* result.get('status') on what scrape returned; a list has no get().
StatusOf(ret) == Get(ret.value, "status")

\* return {'url': url, 'status': 'skipped', 'reason': 'already_visited'}
Skipped(url) ==
    Result("dict", [url |-> url, status |-> <<"skipped">>, reason |-> <<"already_visited">>])

\* An except branch that records nothing.
FailureUnrecorded(url) == visited_urls

\* except Exception: self.state_manager.mark_visited(url, status='failed')
MarkFailed(url) == mark_visited(visited_urls, session_id, url, NULL, <<"failed">>, now)

\* AsyncScraper.scrape(url) from the fetch on, given what the fetch and the
\* extraction come to: the value returned and the state left.
scrape_fetched(url, po) ==
    IF po.kind \in {"fetch_error", "extract_error"}
    THEN [ret |-> Result("dict", [url |-> url, status |-> <<"failed">>,
                                  error |-> <<po.kind>>]),
          visited |-> IF cfg.use_state THEN MarkFailed(url) ELSE visited_urls,
          scraped |-> scraped_items,
          seen |-> seen_ids, results |-> results, fetched |-> TRUE]
    ELSE LET raw == IF po.kind = "list" THEN po.value ELSE <<po.value>>
             tagged == [i \in 1..Len(raw) |->
                           Put(Put(raw[i], "url", url), "status", <<"success">>)]
         IN  With(add_results(tagged, seen_ids, results, cfg.schema), LAMBDA a :
             LET data == IF po.kind = "list" THEN Result("list", a.items)
                         ELSE Result("dict", a.items[1])
                 save_data == IF po.kind = "list"
                              THEN [item_count |-> Len(a.items), type |-> <<"list">>]
                              ELSE a.items[1]
             IN  [ret |-> data,
                  visited |-> IF cfg.use_state
                              THEN mark_visited(visited_urls, session_id, url, NULL,
                                                <<"success">>, now)
                              ELSE visited_urls,
                  scraped |-> IF cfg.use_state
                              THEN save_item(scraped_items, session_id, url, save_data,
                                             NULL, now)
                              ELSE scraped_items,
                  seen |-> a.seen, results |-> a.results, fetched |-> TRUE])

\* AsyncScraper.scrape(url) inside the semaphore: the visit check, then the rest.
scrape(url, po) ==
    IF cfg.use_state /\ is_visited(visited_urls, url, NULL)
    THEN [ret |-> Skipped(url),
          visited |-> visited_urls, scraped |-> scraped_items,
          seen |-> seen_ids, results |-> results, fetched |-> FALSE]
    ELSE scrape_fetched(url, po)

\* ------------------------------ one call of scrape, statement by statement

\* RetryMiddleware(max_retries=3)
MaxRetries == 3

\* RetryMiddleware.process_request(request)
RetryMiddleware_process_request(request) ==
    Put(request, "_retry_config", [max_retries |-> MaxRetries, backoff_factor |-> 1])

\* A fetch that repeats a failed request as the request's retry configuration
\* says.
RetriesPerConfig(request, raises) ==
    IF raises /\ "_retry_config" \in DOMAIN request
    THEN 1 + request._retry_config.max_retries
    ELSE 1

\* _fetch_page: the number of times client.get is called for the request the
\* middlewares hand back, whether the call raises or not. Only the request's
\* 'proxy' and 'headers' are read.
fetch_page_attempts(request, raises) == 1

\* A scrape that records the visit before it runs the pipeline.
MarksBeforePipeline(at) ==
    CASE at = "fetch" -> "extract"
      [] at = "extract" -> "mark"
      [] at = "mark" -> "pipeline"
      [] at = "pipeline" -> "save"
      [] at = "save" -> "returned"

\* The statements of scrape's try block in the order of the code: the await of
\* _fetch_page, extractor.extract, the add_result loop, mark_visited, save_item,
\* return.
NextStatement(at) ==
    CASE at = "fetch" -> "extract"
      [] at = "extract" -> "pipeline"
      [] at = "pipeline" -> "mark"
      [] at = "mark" -> "save"
      [] at = "save" -> "returned"

\* scrape(url) of a scraper with a state store is called: the visit check.
\* lastCall holds the call: where it stands, the items extracted that add_result
\* has not been given yet (pending) and those it has (data).
ScrapeBegin ==
    /\ lastCall.op = "none" \/ (lastCall.op = "scrape" /\ lastCall.at = "returned")
    /\ \E url \in {PlainUrl, PageUrl(1)}, po \in PageOutcomes \cup {LinklessList} :
        lastCall' =
            IF is_visited(visited_urls, url, NULL)
            THEN [op |-> "scrape", url |-> url, po |-> po, at |-> "returned",
                  pending |-> <<>>, data |-> <<>>, ret |-> Skipped(url),
                  request |-> NULL, fetches |-> 0]
            ELSE [op |-> "scrape", url |-> url, po |-> po, at |-> "fetch",
                  pending |-> <<>>, data |-> <<>>, ret |-> NULL,
                  request |-> NULL, fetches |-> 0]
    /\ UNCHANGED <<now, visited_urls, sessions, scraped_items, session_id, pipeVars,
                   crawlVars>>

\* html = await self._fetch_page(url): the request goes through the middlewares
\* and is sent.
ScrapeFetch ==
    /\ lastCall.op = "scrape" /\ lastCall.at = "fetch"
    /\ \E request \in {RetryMiddleware_process_request(
                           [url |-> lastCall.url, headers |-> <<>>])} :
        lastCall' = [lastCall EXCEPT
                        !.request = request,
                        !.fetches = lastCall.fetches
                                    + fetch_page_attempts(request,
                                                          lastCall.po.kind = "fetch_error"),
                        !.at = IF lastCall.po.kind = "fetch_error"
                               THEN "except" ELSE NextStatement("fetch")]
    /\ UNCHANGED <<now, visited_urls, sessions, scraped_items, session_id, pipeVars,
                   crawlVars>>

\* data = self.extractor.extract(...), and url and status set on every item.
ScrapeExtract ==
    /\ lastCall.op = "scrape" /\ lastCall.at = "extract"
    /\ lastCall' =
        IF lastCall.po.kind = "extract_error"
        THEN [lastCall EXCEPT !.at = "except"]
        ELSE LET raw == IF lastCall.po.kind = "list" THEN lastCall.po.value
                        ELSE <<lastCall.po.value>>
             IN  [lastCall EXCEPT
                     !.at = NextStatement("extract"),
                     !.pending = [i \in 1..Len(raw) |->
                                     Put(Put(raw[i], "url", lastCall.url), "status",
                                         <<"success">>)]]
    /\ UNCHANGED <<now, visited_urls, sessions, scraped_items, session_id, pipeVars,
                   crawlVars>>

\* self.add_result(item), for the next item of the page.
ScrapeAddResult ==
    /\ lastCall.op = "scrape" /\ lastCall.at = "pipeline"
    /\ lastCall.pending # <<>>
    /\ \E a \in {add_results(<<Head(lastCall.pending)>>, seen_ids, results, NULL)} :
        /\ seen_ids' = a.seen
        /\ results' = a.results
        /\ lastCall' = [lastCall EXCEPT
                           !.pending = Tail(lastCall.pending),
                           !.data = lastCall.data \o a.items,
                           !.at = IF Tail(lastCall.pending) = <<>>
                                  THEN NextStatement("pipeline") ELSE "pipeline"]
    /\ UNCHANGED <<now, visited_urls, sessions, scraped_items, session_id, emitted,
                   lastFed, mode, cfg, pc, current_url, page_num, all_results,
                   task_results, attempt, outcome, started, pages, fetchFailed>>

\* self.state_manager.mark_visited(url, status='success')
ScrapeMarkVisited ==
    /\ lastCall.op = "scrape" /\ lastCall.at = "mark"
    /\ visited_urls' = mark_visited(visited_urls, session_id, lastCall.url, NULL,
                                    <<"success">>, now)
    /\ lastCall' = [lastCall EXCEPT !.at = NextStatement("mark")]
    /\ UNCHANGED <<now, sessions, scraped_items, session_id, pipeVars, crawlVars>>

\* self.state_manager.save_item(url, save_data); return data
ScrapeSaveItem ==
    /\ lastCall.op = "scrape" /\ lastCall.at = "save"
    /\ LET save_data == IF lastCall.po.kind = "list"
                        THEN [item_count |-> Len(lastCall.data), type |-> <<"list">>]
                        ELSE lastCall.data[1]
       IN  scraped_items' = save_item(scraped_items, session_id, lastCall.url, save_data,
                                      NULL, now)
    /\ lastCall' = [lastCall EXCEPT
                       !.at = NextStatement("save"),
                       !.ret = IF lastCall.po.kind = "list"
                               THEN Result("list", lastCall.data)
                               ELSE Result("dict", lastCall.data[1])]
    /\ UNCHANGED <<now, visited_urls, sessions, session_id, pipeVars, crawlVars>>

\* except Exception: the failed visit is recorded and the failed result returned.
ScrapeExcept ==
    /\ lastCall.op = "scrape" /\ lastCall.at = "except"
    /\ visited_urls' = mark_visited(visited_urls, session_id, lastCall.url, NULL,
                                    <<"failed">>, now)
    /\ lastCall' = [lastCall EXCEPT
                       !.at = "returned",
                       !.ret = Result("dict", [url |-> lastCall.url,
                                               status |-> <<"failed">>,
                                               error |-> <<lastCall.po.kind>>])]
    /\ UNCHANGED <<now, sessions, scraped_items, session_id, pipeVars, crawlVars>>

\* ----------------------------------- AsyncScraper.scrape_with_pagination

\* The crawl hands a value, or an exception, to its caller.
Return(value) ==
    /\ pc' = "done"
    /\ outcome' = [kind |-> "returned", value |-> value]

Raise(error) ==
    /\ pc' = "done"
    /\ outcome' = [kind |-> "raised", error |-> error]

\* A finally block that ends no session.
NoEndSession(tbl, cur, t) == tbl

\* finally: if self.state_manager: self.state_manager.end_session()
FinallyEndSession(tbl, cur, t) == end_session(tbl, cur, NULL, t)

AfterFinally == IF cfg.use_state THEN FinallyEndSession(sessions, session_id, now)
                ELSE sessions

\* A page loop without its limit.
LoopForever(n, max_pages) == TRUE

\* while page_num <= max_pages
LoopContinues(n, max_pages) == n <= max_pages

\* The page number a URL shows, the start page being page 1.
PageOf(url) == IF url = PlainUrl THEN 1 ELSE ParseInt(SubSeq(url, 3, Len(url)))

\* Where the next link of a fetched page may lead: to the following listing
\* page, or back to the start page.
LinkTargets(url) == {PageUrl(PageOf(url) + 1), cfg.start_url}

\* The regular expression <key>(\d+) matches at token i of the URL: the key, then
\* at least one digit.
MatchAt(url, key, i) ==
    /\ i + 1 <= Len(url)
    /\ url[i] = key
    /\ url[i + 1] \in DigitTokens

\* \d+ is greedy: the last token of the run of digits that starts at token i.
RECURSIVE RunEnd(_, _)
RunEnd(url, i) ==
    IF i + 1 <= Len(url) /\ url[i + 1] \in DigitTokens THEN RunEnd(url, i + 1) ELSE i

\* re.search(pattern, url): the position of the leftmost match, 0 for None.
re_search(url, key) ==
    IF \E i \in 1..Len(url) : MatchAt(url, key, i)
    THEN CHOOSE i \in 1..Len(url) :
            /\ MatchAt(url, key, i)
            /\ \A j \in 1..(i - 1) : ~MatchAt(url, key, j)
    ELSE 0

\* re.sub(pattern, repl, url): every match, left to right, becomes repl.
RECURSIVE re_sub(_, _, _)
re_sub(url, key, repl) ==
    IF url = <<>> THEN <<>>
    ELSE IF MatchAt(url, key, 1)
    THEN repl \o re_sub(SubSeq(url, RunEnd(url, 2) + 1, Len(url)), key, repl)
    ELSE <<Head(url)>> \o re_sub(Tail(url), key, repl)

\* pagination_config.get('pattern', r'page=(\d+)')
DefaultPattern == "page="

\* _find_next_page, pagination type url_pattern: the page number the pattern
\* captures is incremented and substituted back.
url_pattern_next(url, key) ==
    LET m == re_search(url, key)
    IN  IF m = 0 THEN NULL
        ELSE LET current_page == ParseInt(SubSeq(url, m + 1, RunEnd(url, m + 1)))
                 next_page == current_page + 1
             IN  re_sub(url, key, <<"page=">> \o Str(next_page))

\* AsyncScraper._find_next_page(current_url, pagination_config); `pagination` is
\* the configured type, "none" for an empty pagination_config; `dom` is the
\* resolved target of the next link that fetching and parsing the page yields,
\* or NULL (the fetch failed, or the page has no usable next link).
find_next_page(url, pagination, dom) ==
    LET pagination_type == IF pagination = "none" THEN "next_button" ELSE pagination
    IN  IF pagination_type = "next_button" THEN dom
        ELSE IF pagination_type = "url_pattern"
        THEN url_pattern_next(url, DefaultPattern)
        ELSE NULL

AsyncConfigs ==
    [start_url : {PlainUrl, PageUrl(1)}, max_pages : 1..MaxPages, max_items : {0, 1},
     pagination : {"none", "next_button", "url_pattern"}, selector : {FALSE},
     use_state : BOOLEAN, schema : {NULL}]

\* The URLs _fetch_page has requested, after one more call of it or none.
Fetched(fetched, url, fetches) == IF fetches THEN Append(fetched, url) ELSE fetched

\* _find_next_page requests the current URL again when the pagination type is
\* next_button (the default type), and requests nothing for url_pattern.
FindNextFetches(pagination) ==
    (IF pagination = "none" THEN "next_button" ELSE pagination) = "next_button"

\* scrape_with_pagination is called: up to the first page's scrape. lastCall holds
\* the URLs the call has requested, in order.
StartAsync ==
    \E c \in AsyncConfigs :
        /\ pc = "idle"
        /\ mode' = "async"
        /\ cfg' = c
        /\ current_url' = c.start_url
        /\ page_num' = 1
        /\ all_results' = <<>>
        /\ attempt' = 1
        /\ pages' = 0
        /\ fetchFailed' = NULL
        /\ IF c.pagination = "none" /\ c.max_pages <= 1
           THEN /\ pc' = "single"
                /\ outcome' = [kind |-> "none"]
                /\ started' = {}
                /\ UNCHANGED <<sessions, session_id>>
           ELSE IF ~c.use_state
           THEN /\ pc' = "loop"
                /\ outcome' = [kind |-> "none"]
                /\ started' = {}
                /\ UNCHANGED <<sessions, session_id>>
           ELSE \E r \in {start_session(sessions, c.start_url, <<"pagination">>, now)} :
                    /\ session_id' = r.sid
                    /\ sessions' = r.sessions
                    /\ IF r.error # NoError
                       THEN /\ Raise(r.error)      \* raised before the try block
                            /\ started' = {}
                       ELSE /\ pc' = "loop"
                            /\ outcome' = [kind |-> "none"]
                            /\ started' = {r.sid}
        /\ lastCall' = [op |-> "scrape_with_pagination", fetched |-> <<>>]
        /\ UNCHANGED <<now, visited_urls, scraped_items, pipeVars, results>>
        /\ UNCHANGED task_results

\* No pagination configured and max_pages <= 1: one scrape of the start URL.
SinglePage ==
    /\ pc = "single"
    /\ \E po \in PageOutcomes : \E r \in {scrape(current_url, po)} :
            /\ visited_urls' = r.visited
            /\ scraped_items' = r.scraped
            /\ seen_ids' = r.seen
            /\ results' = r.results
            /\ pages' = pages + 1
            /\ fetchFailed' = IF r.fetched /\ po.kind = "fetch_error"
                              THEN [page |-> page_num, prior |-> all_results]
                              ELSE fetchFailed
            /\ IF r.ret.type = "list"
               THEN Raise("AttributeError")        \* result.get on a list
               ELSE IF StatusOf(r.ret) = <<"success">>
               THEN Return(<<r.ret.value>>)
               ELSE Return(<<>>)
            /\ lastCall' = [lastCall EXCEPT !.fetched = Fetched(@, current_url, r.fetched)]
            /\ UNCHANGED <<now, sessions, session_id, emitted, lastFed, mode, cfg,
                           current_url, page_num, all_results, attempt, started>>
            /\ UNCHANGED task_results

\* A loop that stops only on a failed page.
PageNotFailed(ret) == StatusOf(ret) # <<"failed">>

\* if result.get('status') == 'success'
PageSucceeded(ret) == StatusOf(ret) = <<"success">>

\* One turn of the page loop up to the await in _find_next_page: scrape the
\* current page and look at its status.
LoopPage ==
    /\ pc = "loop"
    /\ \E po \in PageOutcomes : \E r \in {scrape(current_url, po)} :
            /\ visited_urls' = r.visited
            /\ scraped_items' = r.scraped
            /\ seen_ids' = r.seen
            /\ results' = r.results
            /\ pages' = pages + 1
            /\ fetchFailed' = IF r.fetched /\ po.kind = "fetch_error"
                              THEN [page |-> page_num, prior |-> all_results]
                              ELSE fetchFailed
            /\ IF r.ret.type = "list"
               THEN /\ Raise("AttributeError")     \* result.get on a list
                    /\ sessions' = AfterFinally
                    /\ UNCHANGED all_results
               ELSE IF PageSucceeded(r.ret)
               THEN /\ all_results' = Append(all_results, r.ret.value)
                    /\ pc' = "find_next"
                    /\ UNCHANGED <<outcome, sessions>>
               ELSE /\ Return(all_results)         \* break
                    /\ sessions' = AfterFinally
                    /\ UNCHANGED all_results
            /\ lastCall' = [lastCall EXCEPT !.fetched = Fetched(@, current_url, r.fetched)]
            /\ UNCHANGED <<now, session_id, emitted, lastFed, mode, cfg,
                           current_url, page_num, attempt, started>>
            /\ UNCHANGED task_results

\* The rest of the turn: resolve the next URL, advance, test the loop condition.
FindNext ==
    /\ pc = "find_next"
    /\ \E dom \in {NULL} \cup LinkTargets(current_url) :
        \E next_url \in {find_next_page(current_url, cfg.pagination, dom)} :
            IF next_url = NULL
            THEN /\ Return(all_results)         \* break
                 /\ sessions' = AfterFinally
                 /\ UNCHANGED <<current_url, page_num>>
            ELSE /\ current_url' = next_url
                 /\ page_num' = page_num + 1
                 /\ IF LoopContinues(page_num + 1, cfg.max_pages)
                    THEN /\ pc' = "loop"
                         /\ UNCHANGED <<outcome, sessions>>
                    ELSE /\ Return(all_results)
                         /\ sessions' = AfterFinally
    /\ lastCall' = [lastCall EXCEPT
                       !.fetched = Fetched(@, current_url, FindNextFetches(cfg.pagination))]
    /\ UNCHANGED <<now, visited_urls, scraped_items, session_id, pipeVars,
                   results, mode, cfg, all_results, attempt, started, pages,
                   fetchFailed>>
    /\ UNCHANGED task_results

\* ------------------------------------------- AsyncScraper.scrape_multiple

\* The URL lists a batch is called with.
Batches == {<<>>, <<PlainUrl>>, <<PageUrl(1), PlainUrl>>, <<PlainUrl, PlainUrl>>,
            <<PlainUrl, PageUrl(1), PlainUrl>>}

MultiConfigs ==
    [urls : Batches, concurrency : {1, 2}, use_state : BOOLEAN, schema : {NULL}]

\* A task of the batch waits at the semaphore, awaits its fetch, or is done and
\* holds what scrape returned.
Waiting == [type |-> "waiting"]
Fetching == [type |-> "fetching"]
IsDone(t) == t.type \in {"dict", "list"}

\* asyncio.Semaphore(concurrency): the tasks inside `async with self.semaphore`.
Inside == {i \in DOMAIN task_results : task_results[i].type = "fetching"}

\* A semaphore that admits the first waiter whatever the number inside.
AdmitsRegardless ==
    {i \in DOMAIN task_results :
        /\ task_results[i].type = "waiting"
        /\ \A j \in DOMAIN task_results : task_results[j].type = "waiting" => i <= j}

\* The task the semaphore admits next: waiters are served first come first
\* served, and the tasks of a batch arrive in list order.
NextAdmitted ==
    {i \in DOMAIN task_results :
        /\ task_results[i].type = "waiting"
        /\ \A j \in DOMAIN task_results : task_results[j].type = "waiting" => i <= j
        /\ Cardinality(Inside) < cfg.concurrency}

\* A fetch of the batch has completed.
FetchCompleted ==
    \E i \in DOMAIN task_results :
        \/ task_results[i].type = "list"
        \/ task_results[i].type = "dict" /\ StatusOf(task_results[i]) # <<"skipped">>

\* scrape_multiple is called: up to the await of asyncio.gather.
StartMultiple ==
    \E c \in MultiConfigs :
        /\ pc = "idle"
        /\ mode' = "multi"
        /\ cfg' = c
        /\ IF ~(c.use_state /\ c.urls # <<>>)
           THEN /\ pc' = "gather"
                /\ outcome' = [kind |-> "none"]
                /\ started' = {}
                /\ task_results' = [i \in 1..Len(c.urls) |-> Waiting]
                /\ UNCHANGED <<sessions, session_id>>
           ELSE \E r \in {start_session(sessions, c.urls[1], <<"batch">>, now)} :
                    /\ session_id' = r.sid
                    /\ sessions' = r.sessions
                    /\ IF r.error # NoError
                       THEN /\ Raise(r.error)      \* raised before the try block
                            /\ started' = {}
                            /\ UNCHANGED task_results
                       ELSE /\ pc' = "gather"
                            /\ outcome' = [kind |-> "none"]
                            /\ started' = {r.sid}
                            /\ task_results' = [i \in 1..Len(c.urls) |-> Waiting]
        /\ UNCHANGED <<now, visited_urls, scraped_items, lastCall, pipeVars, results,
                       current_url, page_num, all_results, attempt, pages, fetchFailed>>

\* A task enters the semaphore and runs scrape up to the await of its fetch: a
\* URL already visited is skipped there.
TaskBegin ==
    /\ pc = "gather"
    /\ \E i \in NextAdmitted :
        task_results' =
            [task_results EXCEPT ![i] =
                IF cfg.use_state /\ is_visited(visited_urls, cfg.urls[i], NULL)
                THEN Skipped(cfg.urls[i])
                ELSE Fetching]
    /\ UNCHANGED <<storeVars, pipeVars, results, mode, cfg, pc, current_url, page_num,
                   all_results, attempt, outcome, started, pages, fetchFailed>>

\* The fetch of a task completes and the task runs to its end; the visit check
\* of scrape was made when the task began. The event loop starts every task it
\* can admit before it polls for the first completed fetch; a fetch that raises
\* before it suspends ends its task at once.
TaskFinish ==
    /\ pc = "gather"
    /\ \E i \in Inside, po \in PageOutcomes :
        /\ po.kind = "fetch_error" \/ FetchCompleted \/ NextAdmitted = {}
        /\ \E r \in {scrape_fetched(cfg.urls[i], po)} :
            /\ visited_urls' = r.visited
            /\ scraped_items' = r.scraped
            /\ seen_ids' = r.seen
            /\ results' = r.results
            /\ task_results' = [task_results EXCEPT ![i] = r.ret]
    /\ UNCHANGED <<now, sessions, session_id, lastCall, emitted, lastFed, mode, cfg, pc,
                   current_url, page_num, all_results, attempt, outcome, started, pages,
                   fetchFailed>>

\* asyncio.gather returns: the results in list order, then the finally block.
GatherDone ==
    /\ pc = "gather"
    /\ \A i \in DOMAIN task_results : IsDone(task_results[i])
    /\ Return([i \in DOMAIN task_results |-> task_results[i].value])
    /\ sessions' = AfterFinally
    /\ UNCHANGED <<now, visited_urls, scraped_items, session_id, lastCall, pipeVars,
                   results, mode, cfg, current_url, page_num, all_results, task_results,
                   attempt, started, pages, fetchFailed>>

\* ------------------------------------------------- UniversalScraper.scrape

\* stop_after_attempt(3)
StopAfterAttempt == 3

UniversalConfigs ==
    [start_url : {PlainUrl}, max_pages : 1..MaxPages, max_items : {0, 1},
     pagination : {"none"}, selector : BOOLEAN, use_state : {FALSE}, schema : {NULL}]

\* UniversalScraper._extract_data: a list becomes {'items': list}, a dict is
\* returned as it is, and an exception becomes {'error': message}.
extract_data(po) ==
    IF po.kind = "list" THEN [items |-> po.value]
    ELSE IF po.kind = "dict" THEN po.value
    ELSE [error |-> <<po.kind>>]

\* all_results after a page: extend by the page's items, else append the page.
accumulate(acc, page_data) ==
    IF Truthy(Get(page_data, "items")) THEN acc \o page_data.items
    ELSE Append(acc, page_data)

\* What page.content() and Extractor.extract come to on a loaded page: no item
\* goes through the pipeline here, so one dict stands for every dict.
UniPageOutcomes ==
    { [kind |-> "extract_error"],
      [kind |-> "dict", value |-> ItemTitled],
      [kind |-> "list", value |-> <<ItemTitled, ItemUntitled>>] }

\* What the browser meets after extraction: no next button, a next button whose
\* click loads the next page, or one whose click raises.
NextButtons == {"none", "click", "click_error"}

\* UniversalScraper.scrape is called.
StartUniversal ==
    \E c \in UniversalConfigs :
        /\ pc = "idle"
        /\ mode' = "universal"
        /\ cfg' = c
        /\ current_url' = c.start_url
        /\ page_num' = 1
        /\ all_results' = <<>>
        /\ attempt' = 1
        /\ pages' = 0
        /\ fetchFailed' = NULL
        /\ started' = {}
        /\ pc' = "uni_goto"
        /\ outcome' = [kind |-> "none"]
        /\ UNCHANGED <<storeVars, pipeVars, results>>
        /\ UNCHANGED task_results

\* A decorator that stops after the second attempt.
StopsAfterTwo(n) == n < 2

\* stop=stop_after_attempt(3): after a failed attempt number n, another follows.
MayRetry(n) == n < StopAfterAttempt

\* An exception leaves the attempt: the decorator runs scrape again from the
\* start, and re-raises after the last attempt.
AttemptFails(error) ==
    /\ all_results' = <<>>
    /\ page_num' = 1
    /\ pages' = 0
    /\ IF MayRetry(attempt)
       THEN /\ attempt' = attempt + 1
            /\ pc' = "uni_goto"
            /\ UNCHANGED outcome
       ELSE /\ Raise(error)
            /\ UNCHANGED attempt

\* An attempt begins: launch the browser and navigate to the start URL.
UniGoto ==
    /\ pc = "uni_goto"
    /\ \E ok \in BOOLEAN :
        IF ok
        THEN /\ pc' = "uni_loop"
             /\ UNCHANGED <<all_results, page_num, pages, attempt, outcome, fetchFailed>>
        ELSE /\ AttemptFails("TimeoutError")
             /\ fetchFailed' = [page |-> 1, prior |-> <<>>]
    /\ UNCHANGED <<storeVars, pipeVars, results, mode, cfg, current_url, started>>
    /\ UNCHANGED task_results

\* One turn of the page loop: detect a CAPTCHA, extract, accumulate, test
\* max_items, look for the next button, click it, test the loop condition.
UniPage ==
    /\ pc = "uni_loop"
    /\ \/ /\ AttemptFails("Error")             \* _detect_captcha raises
          /\ UNCHANGED fetchFailed
       \/ \E po \in UniPageOutcomes, nb \in NextButtons :
          \E acc \in {accumulate(all_results, extract_data(po))} :
            IF cfg.max_items # 0 /\ Len(acc) >= cfg.max_items
            THEN /\ all_results' = SubSeq(acc, 1, cfg.max_items)
                 /\ Return([items |-> SubSeq(acc, 1, cfg.max_items),
                            total_pages |-> page_num])
                 /\ pages' = pages + 1
                 /\ UNCHANGED <<page_num, attempt, fetchFailed>>
            ELSE IF ~(cfg.selector \/ cfg.max_pages > 1) \/ nb = "none"
            THEN /\ all_results' = acc
                 /\ Return([items |-> acc, total_pages |-> page_num])
                 /\ pages' = pages + 1
                 /\ UNCHANGED <<page_num, attempt, fetchFailed>>
            ELSE IF nb = "click_error"
            THEN /\ AttemptFails("TimeoutError")
                 /\ fetchFailed' = [page |-> page_num + 1, prior |-> acc]
            ELSE /\ all_results' = acc
                 /\ page_num' = page_num + 1
                 /\ pages' = pages + 1
                 /\ IF LoopContinues(page_num + 1, cfg.max_pages)
                    THEN /\ pc' = "uni_loop"
                         /\ UNCHANGED outcome
                    ELSE Return([items |-> acc, total_pages |-> page_num + 1])
                 /\ UNCHANGED <<attempt, fetchFailed>>
    /\ UNCHANGED <<storeVars, pipeVars, results, mode, cfg, current_url, started>>
    /\ UNCHANGED task_results

\* ------------------------------------------- url_pattern pagination alone

\* The pieces URLs are made of, and the keys of the configured patterns
\* <key>(\d+).
UrlTokens == {"list?", "page=", "p=", "1", "9"}
Patterns == {"page=", "p="}
PatternUrls == UNION {[1..n -> UrlTokens] : n \in 1..MaxUrlLen}

\* _find_next_page is called with pagination type url_pattern, and once more on
\* the URL it returned.
FindNextByPattern ==
    /\ lastCall = NoCall
    /\ \E url \in PatternUrls, key \in Patterns :
        \E r \in {url_pattern_next(url, key)} :
            /\ lastCall' = [op |-> "url_pattern", url |-> url, key |-> key, next |-> r,
                            again |-> IF r = NULL THEN NULL ELSE url_pattern_next(r, key)]
            /\ UNCHANGED <<now, visited_urls, sessions, scraped_items, session_id,
                           pipeVars, crawlVars>>

\* ------------------------------------------- next_button pagination alone

\* str.lower() on the tokens of the model.
LowerTok(t) ==
    CASE t = "Next" -> "next"
      [] t = "Prev" -> "prev"
      [] t = "Older" -> "older"
      [] OTHER -> t
Lower(text) == [i \in 1..Len(text) |-> LowerTok(text[i])]

\* `p in text` on strings: p is a contiguous part of text.
In(p, text) == \E i \in 1..(Len(text) - Len(p) + 1) : SubSeq(text, i, i + Len(p) - 1) = p

\* el.get_text(strip=True).lower()
get_text_lower(el) == Lower(Strip(el.text))

\* ['next', 'more', 'older', '>', '\u00bb'], and the words tested after a match.
NextWords == {<<"next">>, <<"more">>, <<"older">>, <<">">>, <<"raquo">>}
PrevWords == {<<"prev">>, <<"back">>, <<"newer">>}

\* The test the text scan of _find_next_page makes on an element of tag `tag`.
IsNextLink(el, tag) ==
    /\ el.tag = tag
    /\ \E w \in NextWords : In(w, get_text_lower(el))
    /\ ~\E w \in PrevWords : In(w, get_text_lower(el))
    /\ tag = "a" /\ Truthy(el.href)

\* The text scan of _find_next_page, were it to accept buttons and anchors
\* without a link target.
text_scan_any_element(page) ==
    IF \E i \in 1..Len(page) : \E w \in NextWords : In(w, get_text_lower(page[i]))
    THEN CHOOSE i \in 1..Len(page) : \E w \in NextWords : In(w, get_text_lower(page[i]))
    ELSE 0

\* The text scan of _find_next_page: for tag in ['a', 'button'], the elements of
\* the tag in document order; the index of the element it stops at, 0 for none.
text_scan(page) ==
    IF \E i \in 1..Len(page) : IsNextLink(page[i], "a")
    THEN CHOOSE i \in 1..Len(page) :
            /\ IsNextLink(page[i], "a")
            /\ \A j \in 1..(i - 1) : ~IsNextLink(page[j], "a")
    ELSE IF \E i \in 1..Len(page) : IsNextLink(page[i], "button")
    THEN CHOOSE i \in 1..Len(page) :
            /\ IsNextLink(page[i], "button")
            /\ \A j \in 1..(i - 1) : ~IsNextLink(page[j], "button")
    ELSE 0

\* A URL here is <<origin, directory, file>>; a link target is absolute, or
\* <<"/", directory, file>> (from the root), or <<file>> (from the directory).
Origins == {"https://x", "https://y"}

\* urllib.parse.urljoin(current_url, next_href)
urljoin(base, href) ==
    IF href[1] \in Origins THEN href
    ELSE IF href[1] = "/" THEN <<base[1]>> \o Tail(href)
    ELSE <<base[1], base[2]>> \o href

\* _find_next_page, pagination type next_button, on the parsed page: `sel` is the
\* index of the element soup.select_one(selector) returns, 0 when no selector is
\* configured or nothing matches it. The element used and the URL returned.
next_button_next(url, page, sel) ==
    LET next_element == IF sel # 0 THEN sel ELSE text_scan(page)
    IN  [element |-> next_element,
         next |-> IF next_element # 0 /\ Truthy(page[next_element].href)
                  THEN urljoin(url, page[next_element].href)
                  ELSE NULL]

\* The keywords of the browser-driven crawl, in the order it tries them, and the
\* words it tests after a match.
UniKeywords == << <<"next">>, <<"more">>, <<"older">>, <<">">>, <<"A^", "raquo">> >>
UniBadWords == {<<"prev">>, <<"back">>, <<"newer">>, <<"<">>}

\* txt = (await el.text_content()).lower().strip()
text_content_lower(el) == Strip(Lower(el.text))

\* The element the scan of UniversalScraper.scrape accepts for tag `tag` and
\* keyword number k: the first one in document order, 0 for none.
UniAccepts(el, tag, k) ==
    /\ el.tag = tag
    /\ In(UniKeywords[k], text_content_lower(el))
    /\ ~\E bad \in UniBadWords : In(bad, text_content_lower(el))

\* The text search of UniversalScraper.scrape: for tag in ['a', 'button'], for kw
\* in keywords, the matching elements in document order.
RECURSIVE uni_scan(_, _, _)
uni_scan(page, tags, k) ==
    IF tags = <<>> THEN 0
    ELSE IF k > Len(UniKeywords) THEN uni_scan(page, Tail(tags), 1)
    ELSE IF \E i \in 1..Len(page) : UniAccepts(page[i], Head(tags), k)
    THEN CHOOSE i \in 1..Len(page) :
            /\ UniAccepts(page[i], Head(tags), k)
            /\ \A j \in 1..(i - 1) : ~UniAccepts(page[j], Head(tags), k)
    ELSE uni_scan(page, tags, k + 1)

\* The anchors and buttons of a page, in document order.
LinkTexts == {<<"Next">>, <<"Prev", "ious">>, <<"<", " ", "Older">>, <<" ", "more", " ">>,
              <<"Home">>}
LinkHrefs == {NULL, <<"/", "p/", "2">>, <<"https://y", "p/", "2">>, <<"0">>}
Elements == [tag : {"a", "button"}, text : LinkTexts, href : LinkHrefs]
LinkPages == UNION {[1..n -> Elements] : n \in 0..MaxElems}
CurrentUrl == <<"https://x", "p/", "1">>

\* The next link of a page is looked for: by _find_next_page, and by the text
\* search of the browser-driven crawl.
FindNextByButton ==
    /\ lastCall = NoCall
    /\ \E page \in LinkPages :
        \E sel \in 0..Len(page) :
        \E r \in {next_button_next(CurrentUrl, page, sel)} :
            /\ lastCall' = [op |-> "next_button", url |-> CurrentUrl, page |-> page,
                            sel |-> sel, element |-> r.element, next |-> r.next,
                            uni |-> uni_scan(page, <<"a", "button">>, 1)]
            /\ UNCHANGED <<now, visited_urls, sessions, scraped_items, session_id,
                           pipeVars, crawlVars>>

\* ---------------------------------------------------------------- Extractor

\* A document is the sequence of its container elements in document order. An
\* element has a tag, a class list, and the parts the extractor looks for in it:
\* the first <img> (src, data_src), the first <a> (href, text), the text of its
\* first heading and the price its text shows, each NULL when absent.
\* len(s) of a string given as tokens.
TokLen(t) ==
    CASE t = "Item" -> 4
      [] t = "title" -> 5
      [] t = "https://cdn/" -> 12
      [] t = "i.png" -> 5
      [] OTHER -> 1
RECURSIVE StrLen(_)
StrLen(str) == IF str = <<>> THEN 0 ELSE TokLen(Head(str)) + StrLen(Tail(str))

\* len(d) of a dict.
DictLen(d) == Cardinality(DOMAIN d)

\* Extractor._heuristically_extract_item(element)
heuristically_extract_item(el) ==
    LET src == IF el.img = NULL THEN NULL ELSE Or(el.img.src, el.img.data_src)
        d1 == IF el.img # NULL /\ Truthy(src) /\ StrLen(src) > 10
              THEN Put(<<>>, "image", src) ELSE <<>>
        d2 == IF el.a # NULL /\ Truthy(el.a.href) THEN Put(d1, "link", el.a.href) ELSE d1
        link_text == IF el.a = NULL THEN NULL ELSE Strip(el.a.text)
        d3 == IF el.a # NULL /\ Truthy(link_text) /\ StrLen(link_text) > 3
              THEN Put(d2, "title", link_text) ELSE d2
        d4 == IF "title" \notin DOMAIN d3 /\ Truthy(Strip(el.h))
              THEN Put(d3, "title", Strip(el.h)) ELSE d3
    IN  IF Truthy(el.price) THEN Put(d4, "price", el.price) ELSE d4

\* for tag_name in ['div', 'article', 'li', 'tr']: soup.find_all(tag_name),
\* keeping the elements that have classes.
ContainerTags == <<"div", "article", "li", "tr">>
RECURSIVE Scan(_, _)
Scan(doc, tags) ==
    IF tags = <<>> THEN <<>>
    ELSE SelectSeq(doc, LAMBDA e : e.tag = Head(tags) /\ Truthy(e.classes))
         \o Scan(doc, Tail(tags))

\* ".".join(sorted(classes)): equal for two class lists exactly when they hold
\* the same names the same number of times.
Sig(classes) ==
    [c \in {classes[i] : i \in 1..Len(classes)} |->
        Cardinality({i \in 1..Len(classes) : classes[i] = c})]

\* The keys of class_counts in insertion order.
RECURSIVE Signatures(_, _)
Signatures(scanned, known) ==
    IF scanned = <<>> THEN <<>>
    ELSE IF Sig(Head(scanned).classes) \in known THEN Signatures(Tail(scanned), known)
    ELSE <<Sig(Head(scanned).classes)>>
         \o Signatures(Tail(scanned), known \cup {Sig(Head(scanned).classes)})

\* class_counts.items(): each signature's elements, in the order appended.
Groups(doc) ==
    LET scanned == Scan(doc, ContainerTags)
        sigs == Signatures(scanned, {})
    IN  [g \in 1..Len(sigs) |-> SelectSeq(scanned, LAMBDA e : Sig(e.classes) = sigs[g])]

\* The least number of elements a signature must have to be a candidate.
MinGroup == 3

\* candidates = [elements ... if len(elements) >= 3]
Candidates(doc) == SelectSeq(Groups(doc), LAMBDA elements : Len(elements) >= MinGroup)

\* The number of elements sampled, and of those with at least two fields.
SampleLimit == 5
SampleSize(elements) == IF Len(elements) < SampleLimit THEN Len(elements) ELSE SampleLimit
ValidItems(elements) ==
    Cardinality({i \in 1..SampleSize(elements) :
                    DictLen(heuristically_extract_item(elements[i])) >= 2})

\* valid_items / sample_size > 0.6: 3 / 5 and the literal 0.6 are the same double,
\* and no other ratio of the model is near it.
RatioAbove(valid_items, sample_size) == valid_items * 10 > 6 * sample_size

\* The items of a candidate: those of its elements that yield a field.
ExtractedSet(elements) ==
    LET items == [i \in 1..Len(elements) |-> heuristically_extract_item(elements[i])]
    IN  SelectSeq(items, LAMBDA d : \E k \in DOMAIN d : Truthy(d[k]))

RECURSIVE SumLen(_)
SumLen(items) == IF items = <<>> THEN 0 ELSE DictLen(Head(items)) + SumLen(Tail(items))

\* Twice len(extracted_set) * avg_fields * (1.5 if avg_fields >= 3 else 1.0), as
\* an integer: avg_fields is SumLen / Len, and the floats of the code carry these
\* products exactly for the sizes of the model.
Score2(extracted_set) ==
    IF extracted_set = <<>> THEN 0
    ELSE SumLen(extracted_set)
         * (IF SumLen(extracted_set) >= 3 * Len(extracted_set) THEN 3 ELSE 2)

\* One pass of the loop over the candidates: what it decides for a candidate.
Judged(elements) ==
    LET accepted == RatioAbove(ValidItems(elements), SampleSize(elements))
        extracted_set == IF accepted THEN ExtractedSet(elements) ELSE <<>>
    IN  [elements |-> elements, accepted |-> accepted, extracted_set |-> extracted_set,
         score2 |-> Score2(extracted_set)]

\* if score > max_score
Beats(score2, max_score2) == score2 > max_score2

\* The loop over the candidates, from best_items and max_score.
RECURSIVE BestItems(_, _, _)
BestItems(judged, best_items, max_score2) ==
    IF judged = <<>> THEN best_items
    ELSE IF Beats(Head(judged).score2, max_score2)
    THEN BestItems(Tail(judged), Head(judged).extracted_set, Head(judged).score2)
    ELSE BestItems(Tail(judged), best_items, max_score2)

\* Extractor._detect_and_extract_list(soup): the candidates as judged, and the
\* value returned (None when no items are kept).
detect_and_extract_list(doc) ==
    LET cands == Candidates(doc)
        judged == [g \in 1..Len(cands) |-> Judged(cands[g])]
    IN  [judged |-> judged, groups |-> Groups(doc),
         result |-> With(BestItems(judged, <<>>, 0), LAMBDA best :
                        IF Truthy(best) THEN best ELSE NULL)]

\* What an element holds.
Nothing == [img |-> NULL, a |-> NULL, h |-> NULL, price |-> NULL]
BareLink == [img |-> NULL, a |-> [href |-> <<"/", "x">>, text |-> <<" ">>], h |-> NULL,
             price |-> NULL]
TitledLink == [img |-> [src |-> <<"i.png">>, data_src |-> NULL],
               a |-> [href |-> <<"/", "y">>, text |-> <<"Item", " ">>], h |-> NULL,
               price |-> NULL]
Card == [img |-> [src |-> NULL, data_src |-> <<"https://cdn/", "i.png">>],
         a |-> [href |-> <<"/", "z">>, text |-> <<"Item", " ", "title">>], h |-> NULL,
         price |-> NULL]
Contents == {Nothing, BareLink, TitledLink, Card}

Element(tag, classes, content) ==
    [tag |-> tag, classes |-> classes, img |-> content.img, a |-> content.a,
     h |-> content.h, price |-> content.price]

\* The tags and class lists of the documents given to list detection: one
\* signature of five and of six elements, and two signatures in either order, on
\* the same and on different tags, with and without a third element.
DivA == [tag |-> "div", classes |-> <<"a">>]
DivB == [tag |-> "div", classes |-> <<"b">>]
LiB == [tag |-> "li", classes |-> <<"b">>]
Layouts ==
    { <<DivA, DivA, DivA, DivA, DivA>>,
      <<DivA, DivA, DivA, DivA, DivA, DivA>>,
      <<DivA, DivB, DivA, DivB, DivB, DivA>>,
      <<LiB, LiB, DivA, LiB, DivA, DivA>>,
      <<DivB, DivB, DivA, DivA, DivA>>,
      <<[tag |-> "div", classes |-> <<>>], DivA, [tag |-> "p", classes |-> <<"a">>],
        [tag |-> "tr", classes |-> <<"a">>]>> }
\* The documents of a set of layouts: every element holds any of the contents.
ListDocs(layouts) ==
    UNION {{[i \in 1..Len(l) |-> Element(l[i].tag, l[i].classes, c[i])] :
                c \in [1..Len(l) -> Contents]} : l \in layouts}

\* List detection is run on a document.
DetectList ==
    /\ lastCall = NoCall
    /\ \E doc \in ListDocs(Layouts) :
        \E r \in {detect_and_extract_list(doc)} :
            /\ lastCall' = [op |-> "detect_list", doc |-> doc, groups |-> r.groups,
                            judged |-> r.judged, result |-> r.result]
            /\ UNCHANGED <<now, visited_urls, sessions, scraped_items, session_id,
                           pipeVars, crawlVars>>

\* ---------------------------------------------------- Extractor.extract

\* The node of an element a field selector picks: selectors here are tag names,
\* and an element holds at most one <a>, one <img> and one heading (an <h2>).
Node(el, selector) ==
    CASE selector = "a" /\ el.a # NULL ->
             [href |-> el.a.href, src |-> NULL, data_src |-> NULL, text |-> el.a.text]
      [] selector = "img" /\ el.img # NULL ->
             [href |-> NULL, src |-> el.img.src, data_src |-> el.img.data_src, text |-> <<>>]
      [] selector = "h2" /\ el.h # NULL ->
             [href |-> NULL, src |-> NULL, data_src |-> NULL, text |-> el.h]
      [] OTHER -> NULL

\* scope.select_one(selector): the first match in document order, or None.
RECURSIVE select_one(_, _)
select_one(scope, selector) ==
    IF scope = <<>> THEN NULL
    ELSE IF Node(Head(scope), selector) # NULL THEN Node(Head(scope), selector)
    ELSE select_one(Tail(scope), selector)

\* The value _extract_fields stores for a field, from the node selected.
FieldValue(field_name, target) ==
    LET lower_field == LowerTok(field_name)
        get_text == Strip(target.text)
    IN  IF lower_field \in {"link", "url", "href"}
        THEN (IF target.href # NULL THEN target.href ELSE get_text)
        ELSE IF lower_field \in {"image", "img", "src", "thumbnail"}
        THEN (IF target.src # NULL THEN target.src
              ELSE IF target.data_src # NULL THEN target.data_src ELSE get_text)
        ELSE get_text

\* Extractor._extract_fields(element, selectors)
extract_fields(scope, selectors) ==
    [f \in {g \in DOMAIN selectors : select_one(scope, selectors[g]) # NULL} |->
        FieldValue(f, select_one(scope, selectors[f]))]

\* any(item_data.values())
AnyValue(d) == \E k \in DOMAIN d : Truthy(d[k])

\* A Strategy 1 that keeps an item for every container.
KeepsAll(d) == TRUE

\* The test an item of a container must pass to be appended.
KeepsItem(d) == AnyValue(d)

\* soup.select(container): container selectors here are <<".", class name>>.
select(doc, container) ==
    SelectSeq(doc, LAMBDA e : \E i \in 1..Len(e.classes) : <<".", e.classes[i]>> = container)

\* Extractor._extract_with_selectors(soup, selectors, container)
extract_with_selectors(doc, selectors, container) ==
    IF Truthy(container)
    THEN LET containers == select(doc, container)
             items == [i \in 1..Len(containers) |->
                          extract_fields(<<containers[i]>>, selectors)]
         IN  SelectSeq(items, KeepsItem)
    ELSE extract_fields(doc, selectors)

\* Extractor._extract_smart_content(html, soup): `traf` is what
\* trafilatura.extract(html) comes to, the main text, None or an exception.
BodyText(page) == <<"body">>
extract_smart_content(page) ==
    LET r1 == IF page.title # NULL THEN Put(<<>>, "title", Strip(page.title)) ELSE <<>>
        r2 == IF page.description # NULL
              THEN Put(r1, "description", Strip(page.description)) ELSE r1
        r3 == CASE page.traf = "text" -> Put(r2, "content", <<"main">>)
                [] page.traf = "none" /\ page.body -> Put(r2, "content", BodyText(page))
                [] page.traf = "none" /\ ~page.body -> r2    \* AttributeError, caught
                [] page.traf = "raises" /\ page.body -> Put(r2, "content", BodyText(page))
                [] OTHER -> r2
    IN  Put(r3, "extraction_type", <<"smart_fallback">>)

\* BeautifulSoup('', 'lxml'): the empty document.
EmptyPage ==
    [elements |-> <<>>, title |-> NULL, description |-> NULL, traf |-> "none",
     body |-> FALSE]

\* Extractor.extract(html, config): html is NULL for the empty string, else the
\* page it parses to. The layer that returned (0 for the early return), what
\* Strategy 1 and list detection gave when run, and the value returned.
extract(html, config) ==
    IF ~Truthy(html) THEN [layer |-> 0, value |-> <<>>]
    ELSE LET selectors == Or(Get(config, "selectors"), Get(config, "fields"))
             container == Get(config, "container")
             result == IF Truthy(selectors)
                       THEN extract_with_selectors(html.elements, selectors, container)
                       ELSE NULL
             by_selectors ==
                 /\ Truthy(selectors)
                 /\ Truthy(result)
                 /\ \/ Truthy(container) /\ Len(result) > 0
                    \/ ~Truthy(container) /\ AnyValue(result)
         IN  IF by_selectors THEN [layer |-> 1, value |-> result]
             ELSE With(detect_and_extract_list(html.elements).result, LAMBDA auto :
                  IF Truthy(auto) THEN [layer |-> 2, value |-> auto]
                  ELSE [layer |-> 3, value |-> extract_smart_content(html)])

\* The pages and configurations extract is called with.
PageElements ==
    {Element("div", <<"a">>, c) : c \in Contents}
        \cup {Element("div", <<"b">>, c) : c \in {Nothing, Card}}
ExtractPages ==
    [elements : UNION {[1..n -> PageElements] : n \in 0..MaxDoc}, title : {NULL, <<"T", " ">>},
     description : {NULL}, traf : {"text"}, body : {TRUE}]
        \cup [elements : {<<>>}, title : {NULL, <<"T", " ">>}, description : {NULL, <<"D">>},
              traf : {"text", "none", "raises"}, body : BOOLEAN]
FieldSelectors == {[title |-> "a"], [title |-> "a", image |-> "img"], [title |-> "h2"]}
ExtractConfigs ==
    {<<>>, [fields |-> [title |-> "a"]]}
        \cup [selectors : FieldSelectors, container : {NULL, <<".", "a">>, <<".", "zz">>}]

\* extract is called on a page, or on the empty string. Beside the call, what
\* each strategy gives on the page taken alone is recorded.
Extract ==
    /\ lastCall = NoCall
    /\ \E html \in {NULL} \cup ExtractPages, config \in ExtractConfigs :
        \E r \in {extract(html, config)}, page \in {IF html = NULL THEN EmptyPage ELSE html} :
            /\ lastCall' = [op |-> "extract", html |-> html, config |-> config,
                            layer |-> r.layer, result |-> r.value,
                            selectors |-> Or(Get(config, "selectors"), Get(config, "fields")),
                            container |-> Get(config, "container"),
                            s1 |-> IF Truthy(Or(Get(config, "selectors"), Get(config, "fields")))
                                   THEN extract_with_selectors(
                                            page.elements,
                                            Or(Get(config, "selectors"), Get(config, "fields")),
                                            Get(config, "container"))
                                   ELSE NULL,
                            s2 |-> detect_and_extract_list(page.elements).result,
                            s3 |-> extract_smart_content(page)]
            /\ UNCHANGED <<now, visited_urls, sessions, scraped_items, session_id,
                           pipeVars, crawlVars>>

StoreInit ==
    /\ now = 0
    /\ visited_urls = {}
    /\ sessions = {}
    /\ scraped_items = <<>>
    /\ session_id = NULL
    /\ lastCall = NoCall

CrawlInit ==
    /\ results = <<>>
    /\ mode = "none"
    /\ cfg = [start_url |-> NULL]
    /\ pc = "idle"
    /\ current_url = NULL
    /\ page_num = 1
    /\ all_results = <<>>
    /\ task_results = <<>>
    /\ attempt = 1
    /\ outcome = [kind |-> "none"]
    /\ started = {}
    /\ pages = 0
    /\ fetchFailed = NULL

Init == StoreInit /\ PipeInit /\ CrawlInit

\* The visit table under any sequence of sessions started and URLs marked.
NextVisits ==
    \/ Tick
    \/ StartSession
    \/ MarkVisited

SpecVisits == Init /\ [][NextVisits]_vars

\* The session table under any sequence of sessions started and ended.
NextSessions ==
    \/ Tick
    \/ StartSession
    \/ EndSession

SpecSessions == Init /\ [][NextSessions]_vars

\* The deduplication stage under any sequence of items.
NextDedup ==
    \/ DedupFeed

SpecDedup == Init /\ [][NextDedup]_vars

\* The saved-item log under any sequence of sessions started, items saved and
\* sessions read.
NextItems ==
    \/ Tick
    \/ StartSession
    \/ SaveItem
    \/ GetSessionItems

SpecItems == Init /\ [][NextItems]_vars

\* A store that two sessions and session-less calls have written to, at second
\* 1.
InitClear ==
    /\ \E by \in [URLs -> {NULL} \cup ClearedSessions] : visited_urls = VisitsBy(by)
    /\ \E saves \in UNION {[1..n -> [p : Payloads, sid : ClearedSessions]] :
                               n \in 0..MaxSaved} :
           scraped_items = ItemsBy(saves)
    /\ \E ids \in SUBSET ClearedSessions : sessions = SessionsBy(ids)
    /\ now = 1
    /\ session_id = NULL
    /\ lastCall = NoCall
    /\ PipeInit
    /\ CrawlInit

\* One clearing of such a store.
NextClear ==
    \/ ClearSession
    \/ ClearAll

SpecClear == InitClear /\ [][NextClear]_vars

\* The pipeline under any sequence of items.
NextPipeline ==
    \/ PipeFeed

SpecPipeline == Init /\ [][NextPipeline]_vars

\* url_pattern pagination on any URL and pattern.
NextUrlPattern ==
    \/ FindNextByPattern

SpecUrlPattern == Init /\ [][NextUrlPattern]_vars

\* next_button pagination on any page.
NextNextButton ==
    \/ FindNextByButton

SpecNextButton == Init /\ [][NextNextButton]_vars

\* Two callers of the same StateManager session have entered mark_visited for
\* the same URL, with the session left to default or named.
InitPair ==
    /\ now = 0
    /\ visited_urls \in PairPriors
    /\ sessions = {}
    /\ scraped_items = <<>>
    /\ session_id \in SessionIds
    /\ \E u \in URLs, sid \in {NULL, session_id}, st \in [Callers -> Statuses] :
           lastCall = [op |-> "mark_visited_pair", url |-> u, sid |-> sid, status |-> st,
                       pos |-> [c \in Callers |-> "start"],
                       path |-> [c \in Callers |-> "none"],
                       error |-> [c \in Callers |-> NoError]]
    /\ PipeInit
    /\ CrawlInit

NextPair ==
    \/ ExecuteInsert
    \/ ExecuteUpdate
    \/ Commit

SpecPair == InitPair /\ [][NextPair]_vars

\* Two crawls are about to be called on a scraper with a fresh store.
InitCrawls ==
    /\ now = 0
    /\ visited_urls = {}
    /\ sessions = {}
    /\ scraped_items = <<>>
    /\ session_id = NULL
    /\ lastCall = [op |-> "two_crawls",
                   pos |-> [c \in Crawls |-> "idle"],
                   own |-> [c \in Crawls |-> NULL],
                   wrote |-> [c \in Crawls |-> NULL],
                   ended |-> [c \in Crawls |-> NULL]]
    /\ PipeInit
    /\ CrawlInit

NextCrawls ==
    \/ CrawlsTick
    \/ CrawlStart
    \/ CrawlScrape
    \/ CrawlEnd

SpecCrawls == InitCrawls /\ [][NextCrawls]_vars

\* List detection on any document.
NextDetect ==
    \/ DetectList

SpecDetect == Init /\ [][NextDetect]_vars

\* extract on any page under any configuration.
NextExtract ==
    \/ Extract

SpecExtract == Init /\ [][NextExtract]_vars

\* What an earlier run of the program left in the database: nothing, or the
\* session and the visit of a one-page crawl of PageUrl(1) made at second 0.
PriorStores ==
    { [visited |-> {}, sessions |-> {}, scraped |-> <<>>],
      [visited |-> mark_visited({}, SessionIdAt(0), PageUrl(1), NULL, <<"success">>, 0),
       sessions |-> end_session(start_session({}, PageUrl(1), <<"pagination">>, 0).sessions,
                                SessionIdAt(0), NULL, 0),
       scraped |-> save_item(<<>>, SessionIdAt(0), PageUrl(1),
                             [title |-> <<"T">>, link |-> <<"L">>, url |-> PageUrl(1),
                              status |-> <<"success">>], NULL, 0)] }

InitCrawl ==
    /\ \E prior \in PriorStores :
        /\ visited_urls = prior.visited
        /\ sessions = prior.sessions
        /\ scraped_items = prior.scraped
    /\ now = 0
    /\ session_id = NULL
    /\ lastCall = NoCall
    /\ PipeInit
    /\ CrawlInit

\* One crawl of a freshly started program, while the clock runs.
NextCrawl ==
    \/ Tick
    \/ StartAsync
    \/ SinglePage
    \/ LoopPage
    \/ FindNext
    \/ StartMultiple
    \/ TaskBegin
    \/ TaskFinish
    \/ GatherDone
    \/ StartUniversal
    \/ UniGoto
    \/ UniPage

SpecCrawl == InitCrawl /\ [][NextCrawl]_vars

\* Calls of scrape one after the other, each followed statement by statement.
NextCycle ==
    \/ ScrapeBegin
    \/ ScrapeFetch
    \/ ScrapeExtract
    \/ ScrapeAddResult
    \/ ScrapeMarkVisited
    \/ ScrapeSaveItem
    \/ ScrapeExcept

SpecCycle == InitCrawl /\ [][NextCycle]_vars

\* The crawl is called, and every await of the crawl returns or raises.
CrawlStep ==
    \/ StartAsync
    \/ SinglePage
    \/ LoopPage
    \/ FindNext
    \/ StartMultiple
    \/ TaskBegin
    \/ TaskFinish
    \/ GatherDone
    \/ StartUniversal
    \/ UniGoto
    \/ UniPage

\* Time passes before the crawl is called.
IdleTick == pc = "idle" /\ Tick

\* A crawl that runs within one second of the clock.
NextTimely ==
    \/ IdleTick
    \/ CrawlStep

FairSpecCrawl == InitCrawl /\ [][NextTimely]_vars /\ WF_vars(CrawlStep)

\* ------------------------------------------- ConfigLoader.get_config_for_url

\* The strings of this section are sequences of characters, the scheme of a URL
\* being one token.
Chr_amazon == <<"a", "m", "a", "z", "o", "n">>
Chr_amazon_com == <<"a", "m", "a", "z", "o", "n", ".", "c", "o", "m">>
Chr_amazon_key == <<"a", "m", "a", "z", "o", "n", "_", "c", "o", "m">>
Chr_costco_com == <<"c", "o", "s", "t", "c", "o", ".", "c", "o", "m">>
Chr_shop_io == <<"s", "h", "o", "p", ".", "i", "o">>
Chr_shop == <<"s", "h", "o", "p">>
Chr_co == <<"c", "o">>
Chr_co_op == <<"c", "o", "_", "o", "p">>
Chr_www == <<"w", "w", "w", ".">>

\* str.lower() on a character.
LowerChr(c) ==
    CASE c = "A" -> "a"
      [] c = "S" -> "s"
      [] OTHER -> c
LowerStr(str) == [i \in 1..Len(str) |-> LowerChr(str[i])]

\* urlparse(url).netloc: what stands between the scheme and the first "/".
netloc(url) ==
    LET rest == Tail(url)
        stops == {i \in 1..Len(rest) : rest[i] = "/"}
        end == IF stops = {} THEN Len(rest) + 1
               ELSE CHOOSE i \in stops : \A j \in stops : i <= j
    IN  SubSeq(rest, 1, end - 1)

\* domain = urlparse(url).netloc.lower(), without a leading 'www.'
DomainOf(url) ==
    LET domain == LowerStr(netloc(url))
    IN  IF Len(domain) >= 4 /\ SubSeq(domain, 1, 4) = Chr_www
        THEN SubSeq(domain, 5, Len(domain)) ELSE domain

\* key.replace('_', '.')
NormalizedKey(key) == [i \in 1..Len(key) |-> IF key[i] = "_" THEN "." ELSE key[i]]

\* The rule by which an entry of the dictionary matches the domain: "A" its
\* 'domain' field, "B" its normalized key, "C" its key when longer than 3
\* characters, "none" otherwise.
EntryRule(entry, domain) ==
    IF "domain" \in DOMAIN entry.options /\ In(LowerStr(entry.options.domain), domain)
    THEN "A"
    ELSE IF In(NormalizedKey(entry.key), domain) THEN "B"
    ELSE IF Len(entry.key) > 3 /\ In(entry.key, domain) THEN "C"
    ELSE "none"

\* A site of the "sites" list matches: its 'domain' is not empty and is part of
\* the domain.
SiteMatches(site, domain) ==
    LET site_domain == IF "domain" \in DOMAIN site THEN LowerStr(site.domain) ELSE <<>>
    IN  Truthy(site_domain) /\ In(site_domain, domain)

\* The first index of seq whose member satisfies Test, 0 when there is none.
FirstIndex(seq, Test(_)) ==
    IF \E i \in 1..Len(seq) : Test(seq[i])
    THEN CHOOSE i \in 1..Len(seq) : Test(seq[i]) /\ \A j \in 1..(i - 1) : ~Test(seq[j])
    ELSE 0

\* ConfigLoader.get_config_for_url(url) on a configuration whose "sites" list
\* and other entries, in the order of the file, are given: the entry returned
\* (NULL for None) and the rule that returned it.
get_config_for_url(config, url) ==
    LET domain == DomainOf(url)
        s == FirstIndex(config.sites, LAMBDA site : SiteMatches(site, domain))
        e == FirstIndex(config.entries, LAMBDA entry : EntryRule(entry, domain) # "none")
    IN  IF s # 0 THEN [rule |-> "sites", value |-> config.sites[s]]
        ELSE IF e # 0
        THEN [rule |-> EntryRule(config.entries[e], domain),
              value |-> config.entries[e].options]
        ELSE [rule |-> "none", value |-> NULL]

\* The keys and values of the entries tried, and the "sites" lists.
ConfigKeys == {Chr_amazon, Chr_amazon_key, Chr_co, Chr_shop, Chr_co_op}
ConfigOptions(key) ==
    { [container |-> key],
      [container |-> key, domain |-> Chr_amazon_com],
      [container |-> key, domain |-> Chr_costco_com] }
ConfigEntries ==
    UNION {{[key |-> k, options |-> o] : o \in ConfigOptions(k)} : k \in ConfigKeys}
SitesLists == {<<>>, <<[name |-> Chr_shop]>>, <<[name |-> Chr_shop, domain |-> Chr_shop_io]>>}
Configs(n) ==
    [sites : SitesLists,
     entries : {es \in UNION {[1..m -> ConfigEntries] : m \in 1..n} :
                   \A i, j \in 1..Len(es) : es[i].key = es[j].key => i = j}]
ConfigUrls ==
    { <<"https://">> \o Chr_www \o Chr_amazon_com \o <<"/", "x">>,
      <<"https://">> \o Chr_costco_com,
      <<"https://", "S">> \o Tail(Chr_shop_io) \o <<"/">>,
      <<"https://">> \o Chr_co_op \o <<".", "i", "o">> }

\* A caller asks for the configuration of a URL.
GetConfigForUrl ==
    /\ lastCall = NoCall
    /\ \E config \in Configs(MaxEntries), url \in ConfigUrls :
        \E r \in {get_config_for_url(config, url)} :
            /\ lastCall' = [op |-> "get_config_for_url", config |-> config, url |-> url,
                            domain |-> DomainOf(url), rule |-> r.rule, value |-> r.value]
            /\ UNCHANGED <<now, visited_urls, sessions, scraped_items, session_id,
                           pipeVars, crawlVars>>

\* The configuration lookup on its own.
NextConfig ==
    \/ GetConfigForUrl

SpecConfig == Init /\ [][NextConfig]_vars

\* ------------------------------------------------------------------ claims

\* C1: after mark_visited(u, s, st1) followed by mark_visited(u, s, st2) the store
\* holds exactly one visit record for u in s, the second call raised no error,
\* and that record's status is st2.
C1_MarkTwiceOneRecordInSession ==
    (lastCall.op = "mark_visited" /\ lastCall.prev = <<lastCall.sid>>) =>
        LET rows == {r \in visited_urls :
                        r.url = lastCall.url /\ r.session_id = lastCall.sid}
        IN  /\ Cardinality(rows) = 1
            /\ lastCall.error = NoError
            /\ \A r \in rows : r.status = lastCall.status

\* C2: after mark_visited(u, s1) and then mark_visited(u, s2) with s1 # s2, the
\* URL is visited in s1 and in s2, and no session holds two records of one URL.
C2_VisitsScopedPerSession ==
    /\ (/\ lastCall.op = "mark_visited"
        /\ lastCall.prev # NULL
        /\ lastCall.sid # NULL
        /\ lastCall.prev[1] # NULL
        /\ lastCall.prev[1] # lastCall.sid)
       => /\ is_visited(visited_urls, lastCall.url, lastCall.prev[1])
          /\ is_visited(visited_urls, lastCall.url, lastCall.sid)
    /\ \A r1, r2 \in visited_urls :
          (r1.url_hash = r2.url_hash /\ r1.session_id = r2.session_id) => r1 = r2

\* C3: end_session on a session that is already completed is a no-op: the
\* completed_at stored by the first call is still the stored value.
C3_EndSessionIdempotent ==
    lastCall.op = "end_session" =>
        \A b \in lastCall.before :
            b.status = <<"completed">> =>
                \A r \in sessions :
                    r.session_id = b.session_id => r.completed_at = b.completed_at

\* C4: start_session always succeeds and returns an id that no session in the
\* store had before the call.
C4_StartSessionAlwaysFresh ==
    lastCall.op = "start_session" => (lastCall.error = NoError /\ lastCall.fresh)

\* C6: the items the deduplication stage has let through have pairwise distinct
\* fingerprints, whatever the order the items were fed in.
C6_DedupEmitsDistinctFingerprints ==
    \A i, j \in 1..Len(emitted) :
        i # j => Fingerprint(emitted[i]) # Fingerprint(emitted[j])

\* C6 happens: two items have been let through, and an item that differs from
\* one of them and has its fingerprint has just been dropped.
C6_Witness ==
    /\ Len(emitted) >= 2
    /\ lastFed.op = "dedup"
    /\ lastFed.dropped
    /\ \E i \in 1..Len(emitted) : emitted[i] # lastFed.item
                                    /\ Fingerprint(emitted[i]) = Fingerprint(lastFed.item)

IsPrefix(p, q) == Len(p) <= Len(q) /\ SubSeq(q, 1, Len(p)) = p

\* A crawl that follows pagination.
Paginated == mode \in {"async", "universal"}

\* The items a finished crawl handed to its caller.
ReturnedItems == IF mode = "universal" THEN outcome.value.items ELSE outcome.value

C7_MaxItemsRespected ==
    (Paginated /\ cfg.max_items # 0) =>
        /\ pc \in {"loop", "uni_loop"} => Len(all_results) < cfg.max_items
        /\ (pc = "done" /\ outcome.kind = "returned") =>
               Len(ReturnedItems) <= cfg.max_items

\* A run of the page loop has processed at most max_pages pages.
PagesBounded ==
    Paginated => (pages <= cfg.max_pages /\ page_num <= cfg.max_pages + 1)

\* C8: a paginated crawl ends, and no run of its page loop processes more than
\* max_pages pages, though every page may show a next link.
C8_CrawlTerminatesWithinMaxPages == []PagesBounded /\ (Paginated ~> (pc = "done"))

\* C8 happens: a crawl went through max_pages pages, each with a next link, and
\* ended on the page limit.
C8_Witness ==
    /\ Paginated
    /\ pc = "done"
    /\ cfg.max_pages > 1
    /\ pages = cfg.max_pages
    /\ page_num = cfg.max_pages + 1

\* C9: when the fetch of page N failed, the crawl has returned a value that
\* holds the results of pages 1..N-1.
C9_FetchFailureKeepsPriorPages ==
    (pc = "done" /\ fetchFailed # NULL) =>
        /\ outcome.kind = "returned"
        /\ IsPrefix(fetchFailed.prior, ReturnedItems)

\* C10: scrape_with_pagination, once it scrapes pages, ends by returning a value
\* to its caller and never by raising.
C10_PaginationNeverRaises ==
    (mode = "async" /\ pc = "done" /\ pages > 0) => outcome.kind = "returned"

\* The current URL with the captured page number n replaced by n + 1 and every
\* other part unchanged; no URL when the pattern does not match.
IncrementedInPlace(url, key) ==
    LET m == re_search(url, key)
    IN  IF m = 0 THEN NULL
        ELSE SubSeq(url, 1, m)
             \o Str(ParseInt(SubSeq(url, m + 1, RunEnd(url, m + 1))) + 1)
             \o SubSeq(url, RunEnd(url, m + 1) + 1, Len(url))

\* C11: url_pattern pagination returns the current URL with the captured page
\* number n replaced by n + 1 and nothing else changed, applying it again gives
\* n + 2, and a pattern that does not match gives no next URL.
C11_UrlPatternIncrementsInPlace ==
    lastCall.op = "url_pattern" =>
        /\ lastCall.next = IncrementedInPlace(lastCall.url, lastCall.key)
        /\ lastCall.next # NULL =>
               lastCall.again = IncrementedInPlace(lastCall.next, lastCall.key)

\* The vocabularies of next-link text detection, and what an element's text says.
NextVocabulary == {<<"next">>, <<"more">>, <<"older">>, <<">">>, <<"raquo">>}
PreviousVocabulary == {<<"prev">>, <<"back">>, <<"newer">>, <<"<">>}
SaysNext(el) == \E w \in NextVocabulary : In(w, Lower(el.text))
SaysPrevious(el) == \E w \in PreviousVocabulary : In(w, Lower(el.text))
IsAnchorSaying(el, text) == el.tag = "a" /\ el.text = text /\ Truthy(el.href)

\* C12: with next_button pagination and text detection, in the concurrent and in
\* the browser-driven crawl, the element selected as the next link has a text that
\* contains a word of the next vocabulary (next, more, older, >, raquo) and no word
\* of the previous vocabulary (prev, back, newer, <); on a page with a Next anchor
\* and a Previous anchor, in either order, the Next anchor is the one selected.
C12_TextDetectionSelectsOnlyNextLinks ==
    lastCall.op = "next_button" =>
        LET page == lastCall.page
        IN  /\ (lastCall.sel = 0 /\ lastCall.element # 0) =>
                   SaysNext(page[lastCall.element]) /\ ~SaysPrevious(page[lastCall.element])
            /\ lastCall.uni # 0 =>
                   SaysNext(page[lastCall.uni]) /\ ~SaysPrevious(page[lastCall.uni])
            /\ \A i, j \in 1..Len(page) :
                   (/\ Len(page) = 2 /\ i # j /\ lastCall.sel = 0
                    /\ IsAnchorSaying(page[i], <<"Next">>)
                    /\ IsAnchorSaying(page[j], <<"Prev", "ious">>)) =>
                       /\ lastCall.element = i
                       /\ lastCall.uni = i
                       /\ lastCall.next = urljoin(lastCall.url, page[i].href)

\* A link target resolved by hand: an absolute one is taken as it is, one from the
\* root keeps the origin of the current URL, one from the directory keeps its
\* origin and directory.
Resolved(url, href) ==
    CASE Len(href) = 3 /\ href[1] # "/" -> href
      [] Len(href) = 3 /\ href[1] = "/" -> <<url[1], href[2], href[3]>>
      [] OTHER -> <<url[1], url[2], href[1]>>

\* C13: text detection of the concurrent crawl yields a next URL only from an
\* anchor that has a link target, never from a button or an anchor without one, and
\* the URL is the anchor's target resolved against the current URL.
C13_TextDetectionFollowsAnchorsOnly ==
    (lastCall.op = "next_button" /\ lastCall.sel = 0) =>
        LET page == lastCall.page
            e == lastCall.element
        IN  /\ lastCall.next # NULL => e # 0
            /\ e # 0 => /\ page[e].tag = "a"
                        /\ page[e].href # NULL
                        /\ lastCall.next = Resolved(lastCall.url, page[e].href)
            /\ (\A i \in 1..Len(page) : page[i].tag = "button" \/ page[i].href = NULL) =>
                   lastCall.next = NULL

\* C13's case: a button saying Next stands before an anchor saying Next whose
\* target is relative, and the anchor's resolved target is returned.
C13_Witness ==
    /\ lastCall.op = "next_button" /\ lastCall.sel = 0
    /\ Len(lastCall.page) = 2
    /\ lastCall.page[1].tag = "button" /\ lastCall.page[1].text = <<"Next">>
    /\ lastCall.page[2].tag = "a" /\ lastCall.page[2].text = <<"Next">>
    /\ lastCall.page[2].href = <<"0">>
    /\ lastCall.next = <<"https://x", "p/", "0">>

\* The positions of the tasks of a batch.
TaskIds == UNION {DOMAIN b : b \in Batches}

\* C14: with concurrency limit K, at most K scrape tasks of a batch are inside the
\* semaphore's section at any moment of scrape_multiple, and every task of the
\* batch is eventually admitted and finishes.
C14_AtMostKTasksInsideAndAllFinish ==
    /\ []((mode = "multi" /\ pc = "gather") => Cardinality(Inside) <= cfg.concurrency)
    /\ \A i \in TaskIds :
           (mode = "multi" /\ pc = "gather" /\ i \in DOMAIN task_results)
               ~> (pc = "done" /\ i \in DOMAIN task_results /\ IsDone(task_results[i]))

\* C14's case: the section is full and a task of the batch waits outside.
C14_Witness ==
    /\ mode = "multi" /\ pc = "gather"
    /\ Cardinality(Inside) = cfg.concurrency
    /\ \E i \in DOMAIN task_results : task_results[i] = Waiting

\* C15: two concurrent mark_visited calls for the same URL in the same session,
\* however their insert, update and commit steps interleave, both return without
\* error and leave exactly one visit record for the URL.
C15_ConcurrentMarksLeaveOneRecord ==
    (lastCall.op = "mark_visited_pair" /\ \A c \in Callers : lastCall.pos[c] = "done") =>
        /\ \A c \in Callers : lastCall.error[c] = NoError
        /\ Cardinality({r \in visited_urls : r.url_hash = hash_url(lastCall.url)}) = 1

\* C15's case: on a table without the URL, the calls carry different statuses; one
\* has inserted and the other has gone through the except branch.
C15_Witness ==
    /\ lastCall.op = "mark_visited_pair"
    /\ \A c \in Callers : lastCall.pos[c] = "done"
    /\ lastCall.status[1] # lastCall.status[2]
    /\ lastCall.path[1] = "update" /\ lastCall.path[2] = "insert"

\* C16: the membership check and the insert of the dedup stage are one atomic
\* step with respect to the concurrent scrape tasks of a batch: in no interleaving
\* of the tasks do two items with the same fingerprint both pass the check, so
\* the results of a batch hold no fingerprint twice and every one is in seen_ids.
C16_DedupAtomicAcrossTasks ==
    mode = "multi" =>
        /\ \A i, j \in 1..Len(results) :
               Fingerprint(results[i]) = Fingerprint(results[j]) => i = j
        /\ \A i \in 1..Len(results) : Fingerprint(results[i]) \in seen_ids

\* C16's case: two tasks admitted together have both returned an item with the
\* same link, and one of the two items is in the results.
C16_Witness ==
    /\ mode = "multi" /\ pc = "gather" /\ cfg.concurrency = 2
    /\ \E i, j \in DOMAIN task_results :
        /\ i # j
        /\ task_results[i].type = "dict" /\ Get(task_results[i].value, "link") = <<"L">>
        /\ task_results[j].type = "dict" /\ Get(task_results[j].value, "link") = <<"L">>
    /\ Cardinality({k \in 1..Len(results) : Get(results[k], "link") = <<"L">>}) = 1

\* At least 60% of the sampled members of a group yield two fields or more.
AtLeastSixtyPercent(elements) == ValidItems(elements) * 100 >= 60 * SampleSize(elements)

\* C19: in automatic list detection a candidate group, sampled by its first
\* min(n, 5) members, is accepted if and only if at least 60% of the sampled
\* members yield at least 2 fields; a group with exactly 3 of 5 is accepted.
C19_AcceptedIffSixtyPercentOfSample ==
    lastCall.op = "detect_list" =>
        \A g \in 1..Len(lastCall.judged) :
            lastCall.judged[g].accepted <=> AtLeastSixtyPercent(lastCall.judged[g].elements)

\* The groups list detection may return from: those of three members or more of
\* which at least 60% of the sample yield two fields, by their place in the order
\* of encounter; and the first of those with the highest score.
Eligible(groups) ==
    {g \in 1..Len(groups) : Len(groups[g]) >= 3 /\ AtLeastSixtyPercent(groups[g])}
Winner(groups) ==
    CHOOSE g \in Eligible(groups) :
        \A h \in Eligible(groups) :
            \/ Score2(ExtractedSet(groups[h])) < Score2(ExtractedSet(groups[g]))
            \/ Score2(ExtractedSet(groups[h])) = Score2(ExtractedSet(groups[g])) /\ g <= h

\* C20: automatic list detection considers only class-signature groups of at
\* least 3 members and returns the items of the accepted group with the highest
\* score item_count x average_field_count x (1.5 if the average is 3 or more,
\* else 1.0); of two accepted groups of equal score the one encountered first is
\* returned, and a lower-scoring group never is.
C20_ReturnsFirstHighestScoringGroup ==
    lastCall.op = "detect_list" =>
        IF Eligible(lastCall.groups) = {}
        THEN lastCall.result = NULL
        ELSE lastCall.result = ExtractedSet(lastCall.groups[Winner(lastCall.groups)])

\* Strategy 1's output is non-trivial: with a container a list of at least one
\* item, without one a single item with at least one non-empty field.
NonTrivialBySelectors ==
    /\ Truthy(lastCall.selectors)
    /\ IF Truthy(lastCall.container) THEN Len(lastCall.s1) >= 1 ELSE AnyValue(lastCall.s1)

\* C17: extract returns the result of the first of its three strategies, in the
\* order configured selectors, list detection, smart fallback, whose output is
\* non-trivial: selectors that yield nothing fall through to list detection, list
\* detection that accepts no group falls through to the smart fallback, and a
\* later strategy's result is never returned when an earlier one yielded.
C17_FirstNonTrivialStrategyWins ==
    lastCall.op = "extract" =>
        lastCall.result =
            IF NonTrivialBySelectors THEN lastCall.s1
            ELSE IF lastCall.s2 # NULL THEN lastCall.s2
            ELSE lastCall.s3

\* The places, in document order, of the elements a container selector matches
\* and that yield a non-empty value for at least one of the fields.
Yielding(doc, container, selectors) ==
    {i \in 1..Len(doc) :
        /\ \E c \in 1..Len(doc[i].classes) : doc[i].classes[c] = container[2]
        /\ \E f \in DOMAIN extract_fields(<<doc[i]>>, selectors) :
               extract_fields(<<doc[i]>>, selectors)[f] # <<>>}

\* C18: with a configured container, Strategy 1 returns one item per matched
\* container element that yields at least one non-empty field value, in document
\* order; a container with no non-empty field contributes no item.
C18_OneItemPerYieldingContainer ==
    (lastCall.op = "extract" /\ lastCall.html # NULL
        /\ Truthy(lastCall.selectors) /\ Truthy(lastCall.container)) =>
        LET doc == lastCall.html.elements
            yielding == Yielding(doc, lastCall.container, lastCall.selectors)
        IN  /\ Len(lastCall.s1) = Cardinality(yielding)
            /\ \A i \in yielding :
                   lastCall.s1[Cardinality({j \in yielding : j <= i})]
                       = extract_fields(<<doc[i]>>, lastCall.selectors)

\* C18's case: of three elements the container matches, the second yields only
\* an empty title; the items of the first and the third are returned, in order.
C18_Witness ==
    /\ lastCall.op = "extract" /\ lastCall.html # NULL
    /\ lastCall.container = <<".", "a">> /\ lastCall.selectors = [title |-> "a"]
    /\ lastCall.html.elements =
           <<Element("div", <<"a">>, Card), Element("div", <<"a">>, BareLink),
             Element("div", <<"a">>, TitledLink)>>
    /\ lastCall.s1 = <<[title |-> <<"Item", " ", "title">>], [title |-> <<"Item">>]>>
    /\ lastCall.result = lastCall.s1

\* C21: when no selectors are configured and list detection finds no group,
\* extract returns a single item tagged extraction_type = 'smart_fallback', for
\* every HTML input, a document without body or without title included.
C21_FallbackAlwaysTagged ==
    (lastCall.op = "extract" /\ ~Truthy(lastCall.selectors) /\ lastCall.s2 = NULL) =>
        Get(lastCall.result, "extraction_type") = <<"smart_fallback">>

\* What each stage decides on an item fed to the pipeline, taken alone.
Normalized(item) == [k \in DOMAIN item |-> Strip(item[k])]
HasTitle(item) == "title" \in DOMAIN item /\ Normalized(item).title # <<>>
IsNew(item, seen) == Fingerprint(Normalized(item)) \notin seen
FitsSchema(item, schema) ==
    schema = NULL \/ \A i \in 1..Len(schema) : schema[i] \in DOMAIN item

\* C22: the pipeline applies its stages in the order Normalize, Validate,
\* Deduplicate, Schema-validate; once a stage drops an item no later stage is run
\* on it (a dropped title leaves the fingerprint set alone), and an item is
\* accepted only if every stage returned it.
C22_StagesInOrderDropShortCircuits ==
    lastFed.op = "pipeline" =>
        LET item == lastFed.item
            v == HasTitle(item)
            d == IsNew(item, lastFed.seen_before)
            c == FitsSchema(item, lastFed.schema)
        IN  /\ lastFed.ran =
                   IF ~v THEN <<"ItemPipeline", "ValidationPipeline">>
                   ELSE IF ~d THEN <<"ItemPipeline", "ValidationPipeline",
                                     "DeduplicationPipeline">>
                   ELSE <<"ItemPipeline", "ValidationPipeline", "DeduplicationPipeline",
                          "SchemaValidationPipeline">>
            /\ lastFed.dropped <=> ~(v /\ d /\ c)
            /\ seen_ids = IF v /\ d
                          THEN lastFed.seen_before \cup {Fingerprint(Normalized(item))}
                          ELSE lastFed.seen_before
            /\ ~lastFed.dropped => lastFed.out = Normalized(item)

\* C22's case: an item whose title is blank after normalization has been dropped
\* by validation, with its link not among the fingerprints, after another item
\* was dropped by the schema with its fingerprint kept.
C22_Witness ==
    /\ lastFed.op = "pipeline"
    /\ lastFed.item = [title |-> <<" ">>, link |-> <<"L2">>]
    /\ lastFed.dropped
    /\ <<"str", <<"L2">>>> \notin seen_ids
    /\ <<"str", <<"L1">>>> \in seen_ids
    /\ emitted = <<>>

\* The item is among the results the pipeline accepted.
Accepted(item) == \E j \in 1..Len(results) : results[j] = item

\* The items of a value scrape returned: those of a list, or the one successful
\* item.
ItemsOf(ret) ==
    IF ret.type = "list" THEN {ret.value[k] : k \in 1..Len(ret.value)}
    ELSE IF StatusOf(ret) = <<"success">> THEN {ret.value}
    ELSE {}

\* C23: every item a crawl hands back to its caller has been accepted by all
\* pipeline stages: an item dropped by Validate, Deduplicate or Schema-validate
\* is not in the value returned by scrape, scrape_multiple or
\* scrape_with_pagination.
C23_ReturnedItemsWereAccepted ==
    /\ mode = "multi" =>
           \A i \in DOMAIN task_results :
               IsDone(task_results[i]) => \A item \in ItemsOf(task_results[i]) : Accepted(item)
    /\ (mode = "async" /\ pc = "done" /\ outcome.kind = "returned") =>
           \A k \in 1..Len(outcome.value) : Accepted(outcome.value[k])

\* The payloads saved under a session, in the order of the log, as they were
\* given to save_item and as get_session_items hands them back.
RowsOf(session) == SelectSeq(scraped_items, LAMBDA r : r.session_id = session)
SavedPayloads(session) ==
    [i \in 1..Len(RowsOf(session)) |-> RowsOf(session)[i].data[2]]
SavedPayloadsWithSource(session) ==
    [i \in 1..Len(RowsOf(session)) |->
        [k \in DOMAIN RowsOf(session)[i].data[2] \cup {"_source_url"} |->
            IF k = "_source_url" THEN RowsOf(session)[i].url
            ELSE RowsOf(session)[i].data[2][k]]]

\* save_item has added exactly one record, for the session and payload given,
\* and changed no record that was there.
SaveAppendsOne ==
    lastCall.op = "save_item" =>
        /\ Len(scraped_items) = Len(lastCall.before) + 1
        /\ SubSeq(scraped_items, 1, Len(lastCall.before)) = lastCall.before
        /\ scraped_items[Len(scraped_items)].session_id = lastCall.sid
        /\ scraped_items[Len(scraped_items)].url = lastCall.url
        /\ scraped_items[Len(scraped_items)].data[2] = lastCall.data

\* C24 as stated: save_item adds exactly one record and changes no existing one,
\* and get_session_items(s) returns exactly the payloads saved under session s, in
\* the order they were saved, and none saved under another session.
C24_ReturnsExactlyThePayloads ==
    /\ SaveAppendsOne
    /\ (lastCall.op = "get_session_items" /\ lastCall.sid # NULL) =>
           lastCall.items = SavedPayloads(lastCall.sid)

\* C24, amended: save_item adds exactly one record and changes no existing one,
\* and get_session_items(s) returns, in the order they were saved, the payloads
\* saved under session s and no other, each with the key '_source_url' set to
\* the URL it was saved for.
C24_ReturnsThePayloadsWithTheirSource ==
    /\ SaveAppendsOne
    /\ (lastCall.op = "get_session_items" /\ lastCall.sid # NULL) =>
           lastCall.items = SavedPayloadsWithSource(lastCall.sid)

\* C24's case: the log holds three records, two of one session with a record
\* of another session saved between them, and the two are read back.
C24_Witness ==
    /\ lastCall.op = "get_session_items" /\ lastCall.sid # NULL
    /\ Len(scraped_items) = 3
    /\ scraped_items[1].session_id = lastCall.sid
    /\ scraped_items[2].session_id # lastCall.sid
    /\ scraped_items[3].session_id = lastCall.sid
    /\ scraped_items[1].data # scraped_items[3].data
    /\ Len(lastCall.items) = 2

\* A call of scrape_with_pagination with no pagination configured and
\* max_pages <= 1.
SinglePageRequest == mode = "async" /\ cfg.pagination = "none" /\ cfg.max_pages <= 1

\* C25: with no pagination configured and max_pages <= 1, scrape_with_pagination
\* is never in the page loop nor looking for a next URL, ends after exactly one
\* scrape of the start URL, and returns that page's result (at most one) to its
\* caller.
C25_SinglePageOneCycleNoLoop ==
    SinglePageRequest =>
        /\ pc \notin {"loop", "find_next"}
        /\ page_num = 1 /\ all_results = <<>>
        /\ pc = "done" =>
               /\ pages = 1
               /\ outcome.kind = "returned"
               /\ Len(outcome.value) <= 1

\* The entries of the configuration given whose 'domain' field is part of the
\* URL's domain, and those whose key matches it: the normalized key, or the key
\* itself when longer than 3 characters.
FieldMatches(entry, domain) ==
    "domain" \in DOMAIN entry.options /\ In(LowerStr(entry.options.domain), domain)
KeyMatches(entry, domain) ==
    Len(entry.key) > 3 /\ (In(NormalizedKey(entry.key), domain) \/ In(entry.key, domain))
EntriesOf(config) == {config.entries[i] : i \in 1..Len(config.entries)}

\* C26: over the whole configuration, an entry whose domain field matches the
\* URL's domain is returned in preference to any entry that matches only by
\* key; a key of 3 characters or fewer matches nothing; and when no entry
\* matches, no configuration is returned.
C26_DomainFieldPreferredShortKeysIgnored ==
    (lastCall.op = "get_config_for_url" /\ lastCall.rule # "sites") =>
        LET entries == EntriesOf(lastCall.config)
            byField == {e \in entries : FieldMatches(e, lastCall.domain)}
            byKey == {e \in entries : KeyMatches(e, lastCall.domain)}
        IN  /\ byField # {} => \E e \in byField : lastCall.value = e.options
            /\ (byField = {} /\ byKey # {}) => \E e \in byKey : lastCall.value = e.options
            /\ (byField = {} /\ byKey = {}) => lastCall.value = NULL

\* The store holds a visit record of the URL, of whatever session and status.
HasVisitRecord(url) == \E r \in visited_urls : r.url = url

\* The store and the results list are left as they were.
NothingWritten ==
    /\ visited_urls' = visited_urls
    /\ scraped_items' = scraped_items
    /\ sessions' = sessions
    /\ results' = results
    /\ seen_ids' = seen_ids

\* C27: scrape(url) of a scraper with a state store, on a URL the store holds a
\* visit record of (of any session, with any status), returns the 'skipped'
\* result without awaiting a fetch and leaves the store and the results list as
\* they were: a task of a batch goes from waiting to done with that result, and
\* the single-page crawl returns nothing.
C27_VisitedUrlSkippedUntouched ==
    [][ /\ (mode = "multi" /\ pc = "gather" /\ pc' = "gather" /\ cfg.use_state) =>
            \A i \in DOMAIN task_results :
                (/\ task_results[i] = Waiting
                 /\ task_results'[i] # Waiting
                 /\ HasVisitRecord(cfg.urls[i])) =>
                    /\ task_results'[i] = Skipped(cfg.urls[i])
                    /\ NothingWritten
        /\ (mode = "async" /\ pc = "single" /\ pc' # "single" /\ cfg.use_state
            /\ HasVisitRecord(current_url)) =>
                /\ outcome' = [kind |-> "returned", value |-> <<>>]
                /\ NothingWritten
      ]_vars

\* C27's case: a task of a batch was skipped for a URL whose only visit failed,
\* and another for a URL visited in an earlier session.
C27_Witness ==
    /\ mode = "multi" /\ cfg.use_state
    /\ \E i \in DOMAIN task_results :
        /\ task_results[i] = Skipped(cfg.urls[i])
        /\ \A r \in visited_urls : r.url = cfg.urls[i] => r.status = <<"failed">>
    /\ \E i \in DOMAIN task_results :
        /\ task_results[i] = Skipped(cfg.urls[i])
        /\ \E r \in visited_urls : r.url = cfg.urls[i] /\ r.session_id # session_id

\* A result of scrape with status 'failed' that carries the error text.
IsFailedResult(ret, url) ==
    /\ ret.type = "dict"
    /\ DOMAIN ret.value = {"url", "status", "error"}
    /\ ret.value.url = url
    /\ ret.value.status = <<"failed">>
    /\ ret.value.error \in {<<"fetch_error">>, <<"extract_error">>}

\* C28: when the fetch or the extraction raises inside scrape, scrape returns a
\* result with status 'failed' and the error text instead of raising, the store
\* (when there is one) holds the URL's visit with status 'failed', and neither
\* the results list nor the saved-item log has changed. A task of a batch whose
\* fetch was awaited ends with a dict: the failed result, or a successful item.
C28_FailureCaughtRecordedNothingAdded ==
    [][ (mode = "multi" /\ pc = "gather" /\ pc' = "gather") =>
            \A i \in DOMAIN task_results :
                (task_results[i] = Fetching /\ task_results'[i] # Fetching) =>
                    \/ /\ IsFailedResult(task_results'[i], cfg.urls[i])
                       /\ results' = results
                       /\ scraped_items' = scraped_items
                       /\ seen_ids' = seen_ids
                       /\ cfg.use_state =>
                              \E r \in visited_urls' :
                                  r.url = cfg.urls[i] /\ r.status = <<"failed">>
                    \/ /\ ItemsOf(task_results'[i]) # {}
                       /\ \A item \in ItemsOf(task_results'[i]) :
                              item.status = <<"success">>
      ]_vars

\* C28's case: in a batch with a state store, one task ended with the failed
\* result of a fetch that raised and another with that of an extraction that
\* raised; the results list and the saved-item log are empty.
C28_Witness ==
    /\ mode = "multi" /\ cfg.use_state
    /\ \E i, j \in DOMAIN task_results :
        /\ IsDone(task_results[i]) /\ IsDone(task_results[j])
        /\ IsFailedResult(task_results[i], cfg.urls[i])
        /\ IsFailedResult(task_results[j], cfg.urls[j])
        /\ task_results[i].value.error = <<"fetch_error">>
        /\ task_results[j].value.error = <<"extract_error">>
    /\ results = <<>>
    /\ scraped_items = <<>>
    /\ \E r \in visited_urls : r.status = <<"failed">>

\* The store's records of a URL.
HasSuccessVisit(url) == \E r \in visited_urls : r.url = url /\ r.status = <<"success">>
HasSavedItem(url) == \E i \in 1..Len(scraped_items) : scraped_items[i].url = url

\* C29: within one page cycle the steps come in the order fetch, extract,
\* pipeline, record visit: while the page is being fetched or extracted nothing
\* of it is written; the 'success' visit of the URL is in the store only once
\* every item extracted has been through the pipeline; and the saved-item record
\* is in the log only once the visit record is in the store.
C29_FetchExtractPipelineRecord ==
    (lastCall.op = "scrape" /\ lastCall.ret # Skipped(lastCall.url)) =>
        /\ lastCall.at \in {"fetch", "extract"} =>
               /\ lastCall.data = <<>>
               /\ ~HasSuccessVisit(lastCall.url)
               /\ ~HasSavedItem(lastCall.url)
        /\ HasSuccessVisit(lastCall.url) =>
               /\ lastCall.pending = <<>>
               /\ lastCall.data # <<>>
               /\ lastCall.at \in {"save", "returned"}
        /\ HasSavedItem(lastCall.url) =>
               /\ HasSuccessVisit(lastCall.url)
               /\ lastCall.at = "returned"

\* C29's case: a page of two items stands between mark_visited and save_item:
\* both items have been through the pipeline (one accepted, one dropped), the
\* visit is recorded and nothing is saved yet.
C29_Witness ==
    /\ lastCall.op = "scrape" /\ lastCall.at = "save"
    /\ lastCall.po.kind = "list"
    /\ Len(lastCall.data) = 2 /\ lastCall.pending = <<>>
    /\ Len(results) = 1
    /\ HasSuccessVisit(lastCall.url)
    /\ ~HasSavedItem(lastCall.url)

C31_AtMostThreeAttemptsFromScratch ==
    [][ mode = "universal" =>
            /\ attempt \in 1..3
            /\ attempt' # attempt =>
                   /\ attempt' = attempt + 1
                   /\ pc \in {"uni_goto", "uni_loop"} /\ pc' = "uni_goto"
                   /\ all_results' = <<>> /\ page_num' = 1
                   /\ current_url' = cfg.start_url
                   /\ outcome'.kind = "none"
            /\ (pc # "done" /\ pc' = "done" /\ outcome'.kind = "raised") => attempt = 3
            /\ pc = "done" => (pc' = "done" /\ attempt' = attempt /\ outcome' = outcome)
      ]_vars

\* C31's case: the third attempt raised on the click that loads a further page,
\* what it had accumulated was discarded, and the exception reached the caller.
C31_Witness ==
    /\ mode = "universal" /\ pc = "done"
    /\ outcome.kind = "raised"
    /\ attempt = 3
    /\ all_results = <<>>
    /\ fetchFailed # NULL /\ fetchFailed.prior # <<>>

\* C32: in the browser-driven crawl a page whose extraction failed is not counted
\* as an item: neither the results accumulated nor the items returned hold an
\* error record.
C32_NoErrorRecordAmongItems ==
    mode = "universal" =>
        /\ \A k \in 1..Len(all_results) : "error" \notin DOMAIN all_results[k]
        /\ (pc = "done" /\ outcome.kind = "returned") =>
               \A k \in 1..Len(outcome.value.items) :
                   "error" \notin DOMAIN outcome.value.items[k]

\* The configured selector produced a usable next link: it returned an element
\* that has an href.
SelectorGivesLink(page, sel) == sel # 0 /\ Truthy(page[sel].href)

\* C33: in next_button resolution the link of the configured selector, when it
\* gives one, is the next URL whatever the text scan would find; and whenever the
\* configured selector gives no usable link, the next URL is the one of the text
\* scan.
C33_SelectorFirstScanOtherwise ==
    lastCall.op = "next_button" =>
        /\ SelectorGivesLink(lastCall.page, lastCall.sel) =>
               lastCall.next = urljoin(lastCall.url, lastCall.page[lastCall.sel].href)
        /\ ~SelectorGivesLink(lastCall.page, lastCall.sel) =>
               lastCall.next = IF text_scan(lastCall.page) = 0 THEN NULL
                               ELSE urljoin(lastCall.url,
                                            lastCall.page[text_scan(lastCall.page)].href)

\* C34: clear_session(s) leaves in each of the three relations exactly the
\* records that were there and do not belong to s, unchanged and in their order;
\* clear_all leaves the three relations empty.
C34_ClearSessionRemovesOnlyItsRecords ==
    /\ lastCall.op = "clear_session" =>
           /\ visited_urls = {r \in lastCall.before.visited : r.session_id # lastCall.sid}
           /\ scraped_items = SelectSeq(lastCall.before.items,
                                        LAMBDA r : r.session_id # lastCall.sid)
           /\ sessions = {r \in lastCall.before.sessions : r.session_id # lastCall.sid}
    /\ lastCall.op = "clear_all" =>
           /\ visited_urls = {} /\ scraped_items = <<>> /\ sessions = {}

\* C34's case: a session that had a visit, a saved item and its session row was
\* cleared while another session had all three as well, and those are still
\* there.
C34_Witness ==
    /\ lastCall.op = "clear_session"
    /\ \E r \in lastCall.before.visited : r.session_id = lastCall.sid
    /\ \E i \in 1..Len(lastCall.before.items) :
           lastCall.before.items[i].session_id = lastCall.sid
    /\ \E r \in lastCall.before.sessions : r.session_id = lastCall.sid
    /\ visited_urls # {} /\ scraped_items # <<>> /\ sessions # {}
    /\ \A r \in visited_urls : r.session_id \in SessionIds

\* C35: the total_pages that UniversalScraper.scrape returns is the number of
\* pages the returning attempt extracted, however its loop ended.
C35_TotalPagesIsPagesProcessed ==
    (mode = "universal" /\ pc = "done" /\ outcome.kind = "returned") =>
        outcome.value.total_pages = pages

\* C36: in a next_button paginated crawl no URL is requested twice, and a crawl
\* that has processed P pages has issued P requests at most.
C36_EachPageFetchedOnce ==
    (mode = "async" /\ cfg.pagination = "next_button"
     /\ lastCall.op = "scrape_with_pagination") =>
        /\ \A i, j \in 1..Len(lastCall.fetched) :
               lastCall.fetched[i] = lastCall.fetched[j] => i = j
        /\ Len(lastCall.fetched) <= pages

\* A task of the batch has requested its URL: it awaits the fetch, or is done
\* with a result other than 'skipped'.
HasFetched(t) == t = Fetching \/ (IsDone(t) /\ (t.type = "list" \/ StatusOf(t) # <<"skipped">>))

\* C37: in a batch with the state store enabled and concurrency K >= 2, no two
\* tasks of the same URL have both requested it.
C37_DuplicateUrlFetchedOnce ==
    (mode = "multi" /\ pc \in {"gather", "done"} /\ cfg.use_state /\ cfg.concurrency >= 2) =>
        \A i, j \in DOMAIN task_results :
            (i # j /\ cfg.urls[i] = cfg.urls[j]) =>
                ~(HasFetched(task_results[i]) /\ HasFetched(task_results[j]))

\* C38: of two crawls running at once on one scraper, each writes its visit and
\* its saved item under the session it started, and each ends the session it
\* started and no other.
C38_EachCrawlKeepsToItsSession ==
    lastCall.op = "two_crawls" =>
        \A c \in Crawls :
            /\ lastCall.pos[c] \in {"scraped", "ended"} =>
                   /\ lastCall.wrote[c] = lastCall.own[c]
                   /\ \A r \in visited_urls :
                          r.url = CrawlUrl(c) => r.session_id = lastCall.own[c]
                   /\ \A k \in 1..Len(scraped_items) :
                          scraped_items[k].url = CrawlUrl(c) =>
                              scraped_items[k].session_id = lastCall.own[c]
            /\ lastCall.pos[c] = "ended" =>
                   /\ lastCall.ended[c] = lastCall.own[c]
                   /\ \A r \in sessions :
                          r.session_id = lastCall.own[c] => r.status = <<"completed">>

\* C39: with the state store enabled a paginated crawl processes no URL twice:
\* the pages it has accumulated are of different URLs, and a turn of the loop
\* that comes to a URL the store holds a visit record of ends the crawl there,
\* which returns the pages accumulated before and writes no visit, item or
\* result.
C39_VisitedNextUrlEndsTheCrawl ==
    [][ (mode = "async" /\ cfg.use_state /\ ~SinglePageRequest) =>
            /\ \A i, j \in 1..Len(all_results) :
                   all_results[i].url = all_results[j].url => i = j
            /\ (pc = "loop" /\ pc' # "loop" /\ HasVisitRecord(current_url)) =>
                   /\ pc' = "done"
                   /\ outcome' = [kind |-> "returned", value |-> all_results]
                   /\ all_results' = all_results
                   /\ visited_urls' = visited_urls
                   /\ scraped_items' = scraped_items
                   /\ results' = results
      ]_vars

\* C39's case: the next link of page 1 led back to the start URL; the crawl came
\* to it as page 2, stopped, and returned page 1.
C39_Witness ==
    /\ mode = "async" /\ cfg.use_state /\ cfg.max_pages >= 2
    /\ pc = "done"
    /\ page_num = 2 /\ pages = 2
    /\ current_url = cfg.start_url
    /\ outcome = [kind |-> "returned", value |-> all_results]
    /\ Len(all_results) = 1
    /\ all_results[1].url = cfg.start_url

\* The items of the page that scrape extracted which have a title and no link.
LinklessAt(i) ==
    /\ Truthy(Get(lastCall.po.value[i], "title"))
    /\ ~Truthy(Get(lastCall.po.value[i], "link"))

\* The results hold item i of the page scrape was called on.
AcceptedAt(i) ==
    \E k \in 1..Len(results) :
        /\ results[k].url = lastCall.url
        /\ results[k].title = lastCall.po.value[i].title

\* C40: once scrape has gone through a page that gave a list, any two items of
\* the list that differ in an extracted field and have no link are both among
\* the results: the page URL they were tagged with did not make the
\* deduplication stage take the second for the first.
C40_LinklessItemsOfOnePageBothAccepted ==
    (lastCall.op = "scrape" /\ lastCall.at = "returned" /\ lastCall.po.kind = "list"
         /\ lastCall.ret.type = "list") =>
        \A i, j \in 1..Len(lastCall.po.value) :
            (i < j /\ lastCall.po.value[i] # lastCall.po.value[j]
                 /\ LinklessAt(i) /\ LinklessAt(j)) =>
                AcceptedAt(i) /\ AcceptedAt(j)

====
